---- MODULE Spec2Model ----
\* A model of the worksglow backend.  The gallery side:
\* src/routes/galleryRoutes.js (create / update / delete / get / list of
\* gallery projects and their images), the PostgreSQL transactions it runs
\* through the pg pool of src/config/db.js and the Vercel Blob calls it
\* makes.  The admin side: login and the current user, the two token
\* middlewares, the update of an about section and the update of the hero
\* slides.
\*
\* Every awaited call of a handler is one action; the synchronous code that
\* follows an await belongs to the action of that await.  A create request
\* arrives with its body; the files of a request and the fields of an
\* update are drawn when the handler first reads them: multer has parsed
\* the request by then and nothing changes it.  The variable sent holds the
\* response a step writes and is empty after every step that writes none.
\* Transactions run at READ COMMITTED: a statement sees the committed rows
\* and the writes of its own transaction, and waits for the row locks of
\* other open transactions.
EXTENDS Integers, Sequences, FiniteSets, TLC

----------------------------------------------------------------------------
\* Bounds of the model.

\* Requests issued in a run.
MaxRequests == 2
\* Blob uploads in a run (image ids never exceed the blob names: every
\* image row follows a successful upload).
MaxUploads == 2
\* Files attached to one request.
MaxFiles == 2
\* Failing database calls (connect, statement, ROLLBACK) in a run.
MaxFaults == 1

\* Pool({ max: 20 })
PoolMax == 20

\* The two request handlers that may be in flight together.
Slots == {1, 2}

----------------------------------------------------------------------------
\* Values.

\* JavaScript undefined (a field the request does not carry).
Undefined == "undefined"
\* SQL NULL.
Null == "NULL"
\* parseInt's NaN; no modelled input parses to a negative number.
NaN == 0 - 1

DigitChars == <<"0", "1", "2", "3", "4", "5", "6", "7", "8", "9">>
IsDigit(c) == \E k \in 1..10 : DigitChars[k] = c
DigitVal(c) == (CHOOSE k \in 1..10 : DigitChars[k] = c) - 1

\* The digits a string starts with.
RECURSIVE LeadingDigits(_)
LeadingDigits(s) ==
    IF s = <<>> \/ ~IsDigit(Head(s)) THEN <<>>
    ELSE <<Head(s)>> \o LeadingDigits(Tail(s))

RECURSIVE DigitsValue(_)
DigitsValue(s) ==
    IF s = <<>> THEN 0
    ELSE DigitsValue(SubSeq(s, 1, Len(s) - 1)) * 10 + DigitVal(s[Len(s)])

\* JavaScript parseInt on a string of characters: the value of the leading
\* digits, NaN when there is none.
ParseInt(s) ==
    IF LeadingDigits(s) = <<>> THEN NaN ELSE DigitsValue(LeadingDigits(s))

\* PostgreSQL's cast of a text parameter to integer: every character must
\* be a digit, else the statement fails (invalid input syntax).
PgIntOk(s) == s # <<>> /\ LeadingDigits(s) = s
PgInt(s) == DigitsValue(s)

\* The text columns the update handler loops over, and all columns a
\* request may set.
TextFields ==
    {"title", "subtitle", "description", "vehicle_type", "service_type",
     "duration", "completed_date"}
AllFields == TextFields \cup {"display_order"}

\* A request body: every field is Undefined (not sent) or a string.  The
\* text fields are opaque strings; display_order is a string of characters.
NoNumber == <<"undefined">>
EmptyBody ==
    [f \in AllFields |-> IF f = "display_order" THEN NoNumber ELSE Undefined]
BodyWith(over) ==
    [f \in AllFields |-> IF f \in DOMAIN over THEN over[f] ELSE EmptyBody[f]]

\* The :id values requests carry.
IdParams == {<<"1">>, <<"2">>, <<"x">>}

\* Authorization headers: none, a valid bearer token.
AuthHeaders == {"none", "good"}

Kinds == {"create", "update", "delete", "get", "list"}

\* The deleted_images field after JSON.parse: not sent (or ''), text that
\* is no JSON, JSON that is no array, or an array of entries.
Deleted(kind, items) == [kind |-> kind, items |-> items]
NoDeleted == Deleted("absent", <<>>)
DeletedInputs ==
    {NoDeleted, Deleted("invalid", <<>>), Deleted("scalar", <<>>),
     Deleted("array", << <<"2">> >>),
     Deleted("array", << <<"3">>, <<"x">> >>)}

\* A parse that gives up on the whole array at an entry parseInt refuses.
ParseDeletedAllOrNothing(d) ==
    IF d.kind = "array" /\ \A k \in 1..Len(d.items) : ParseInt(d.items[k]) # NaN
    THEN {ParseInt(d.items[k]) : k \in 1..Len(d.items)}
    ELSE {}

\* imageIdsToDelete: the entries parseInt accepts, parsed; nothing when
\* the field is missing, is no JSON (JSON.parse throws and is caught) or
\* is no array.
ParseDeleted(d) ==
    IF d.kind = "array"
    THEN {ParseInt(d.items[k]) :
            k \in {j \in 1..Len(d.items) : ParseInt(d.items[j]) # NaN}}
    ELSE {}

\* The bodies create requests carry.
CreateBodies ==
    {BodyWith([title |-> "a", subtitle |-> "a", display_order |-> <<"1">>]),
     BodyWith([subtitle |-> "a"]),
     BodyWith([title |-> "a", display_order |-> <<"x">>])}

\* The bodies update requests carry.
UpdateBodies ==
    {EmptyBody,
     BodyWith([title |-> "", subtitle |-> "b", display_order |-> <<>>]),
     BodyWith([title |-> "b", display_order |-> <<"2", "x">>]),
     BodyWith([display_order |-> <<"x">>])}

\* The update requests: a body, a deleted_images field and a number of
\* files.
UpdateInput(body, del, n) ==
    [body |-> body, deleted_images |-> del, files |-> n]
UpdateInputs ==
    {UpdateInput(b, NoDeleted, 0) : b \in UpdateBodies}
    \cup {UpdateInput(EmptyBody, d, 0) : d \in DeletedInputs}
    \cup {UpdateInput(EmptyBody, d, n) :
            d \in {NoDeleted, Deleted("array", << <<"2">> >>)},
            n \in 1..MaxFiles}
    \cup {UpdateInput(BodyWith([title |-> "b", display_order |-> <<"2", "x">>]),
                      Deleted("array", << <<"2">> >>), 1)}
    \cup {UpdateInput(BodyWith([title |-> "b", display_order |-> <<"2", "x">>]),
                      Deleted("invalid", <<>>), 1)}
    \cup {UpdateInput(EmptyBody, Deleted("array", << <<"x">>, <<"2">> >>), 0)}
    \cup {UpdateInput(EmptyBody, Deleted("array", << <<"1">> >>), 0)}

\* A test of the fields that lets an empty text field through.
SentEvenIfEmpty(body, f) ==
    IF f = "display_order"
    THEN body[f] # NoNumber /\ body[f] # <<>>
    ELSE body[f] # Undefined

\* updateFields / updateValues: the columns an update request overwrites,
\* with the values it sends.
Sent(body, f) ==
    IF f = "display_order"
    THEN body[f] # NoNumber /\ body[f] # <<>>
    ELSE body[f] # Undefined /\ body[f] # ""

\* An UPDATE that sets every column, the missing ones to their defaults.
UpdateSetEveryColumn(body) ==
    [f \in AllFields |->
        IF f = "display_order"
        THEN IF Sent(body, f) THEN ParseInt(body[f]) ELSE 0
        ELSE IF Sent(body, f) THEN body[f] ELSE Null]

UpdateSet(body) ==
    [f \in {g \in AllFields : Sent(body, g)} |->
        IF f = "display_order" THEN ParseInt(body[f]) ELSE body[f]]

----------------------------------------------------------------------------
\* State.

VARIABLES
    projects,       \* committed gallery_projects rows: id -> columns
    images,         \* committed gallery_images rows
    nextProjectId,  \* the serial of gallery_projects.id
    nextImageId,    \* the serial of gallery_images.id
    blobs,          \* the URLs that exist in blob storage
    nextBlob,       \* names the next uploaded blob (its URL)
    pendingDel,     \* blob deletions issued and not awaited by update
    uploads,        \* uploadToBlob calls so far
    req,            \* per handler: the request being served
    h,              \* per handler: its position and local variables
    tx,             \* per handler: the writes of its open transaction
    sent,           \* the response the last step sent, if any
    started,        \* requests issued so far
    faults,         \* failing database calls so far
    borrowed,       \* pool connections checked out
    deletedOK,      \* projects for which a delete has answered success
    about,          \* committed about_content rows: section -> content
    hero,           \* hero_slides rows: slide_order -> columns
    services,       \* services rows: id -> columns
    contact,        \* contact_info rows
    nextContactId,  \* the serial of contact_info.id
    lastContact     \* the values of the contact update answered last

vars ==
    <<projects, images, nextProjectId, nextImageId, blobs, nextBlob,
      pendingDel, uploads, req, h, tx, sent, started, faults, borrowed,
      deletedOK, about, hero, services, contact, nextContactId,
      lastContact>>

\* The rows of the services and contact routes.
site == <<services, contact, nextContactId, lastContact>>

NoRows == [p \in {} |-> EmptyBody]
NoUpdate == [f \in {} |-> Null]

\* A JSON value of a request body by its type: the entries of an object
\* (Object.entries order) or the items of an array.
Json(type, items) == [type |-> type, items |-> items]
Absent == Json("undefined", <<>>)
\* The contact fields of a body: address stands for the four required
\* fields address, phone, email and hours.
NoContact == [address |-> Undefined, whatsapp |-> Undefined]

IdleReq ==
    [kind |-> "none", auth |-> "none", id |-> <<>>, body |-> EmptyBody,
     files |-> 0, deleted_images |-> NoDeleted, authorization |-> <<>>,
     username |-> Undefined, password |-> Undefined, section |-> Undefined,
     content |-> Undefined, heroTitle |-> Undefined, heroFiles |-> {},
     sections |-> Absent, services |-> Absent, patch |-> NoUpdate,
     contact |-> NoContact]
IdleHandler ==
    [pc |-> "idle", i |-> 0, projectId |-> 0, imageUrl |-> 0,
     imageIdsToDelete |-> {}, imagesToDelete |-> {}, nextOrder |-> 0,
     error |-> "none", issued |-> {}, committed |-> FALSE,
     pending |-> {}, listed |-> <<>>, user |-> 0, token |-> <<>>,
     message |-> "none", uploaded |-> {}, checkResult |-> 0,
     data |-> Undefined]
NoTx ==
    [st |-> "none", newProject |-> NoRows, upd |-> NoUpdate, wIns |-> {},
     wDel |-> {}, delProject |-> FALSE, about |-> <<>>]
NoResponse ==
    [req |-> IdleReq, did |-> IdleHandler, status |-> 0, images |-> <<>>]

\* The three hero slides the site is installed with, by slide_order; an
\* image_url of 0 is no URL.
HeroSlides == 1..3
HeroSeed == [k \in HeroSlides |-> [title |-> "a", image_url |-> 0]]

\* The store outlives the server process.  The server starts on the store
\* an earlier create has left: project 1 with two images.
SeedRow == [f \in AllFields |->
              IF f = "display_order" THEN 0
              ELSE IF f = "title" THEN "a" ELSE Null]
SeedImages ==
    {[id |-> 1, project_id |-> 1, image_url |-> 1, image_order |-> 0,
      is_primary |-> TRUE],
     [id |-> 2, project_id |-> 1, image_url |-> 2, image_order |-> 1,
      is_primary |-> FALSE]}

Init ==
    /\ projects = [p \in {1} |-> SeedRow]
    /\ images = SeedImages
    /\ nextProjectId = 2
    /\ nextImageId = 3
    /\ blobs = {1, 2}
    /\ nextBlob = 3
    /\ pendingDel = {}
    /\ uploads = 0
    /\ req = [r \in Slots |-> IdleReq]
    /\ h = [r \in Slots |-> IdleHandler]
    /\ tx = [r \in Slots |-> NoTx]
    /\ sent = NoResponse
    /\ started = 0
    /\ faults = 0
    /\ borrowed = 0
    /\ deletedOK = {}
    /\ about = <<>>
    /\ hero = HeroSeed
    \* the service the site is installed with; service_order is the id
    /\ services = [i \in {1} |-> [title |-> "a", is_active |-> TRUE]]
    /\ contact = {}
    /\ nextContactId = 1
    /\ lastContact = Undefined

----------------------------------------------------------------------------
\* The relational store (PostgreSQL, READ COMMITTED).

InTx(q) == tx[q].st \in {"open", "aborted"}

\* The rows a statement of handler r sees: the committed rows with the
\* writes of r's own transaction applied.
VisibleProjects(r) ==
    (DOMAIN projects \cup DOMAIN tx[r].newProject)
        \ (IF tx[r].delProject THEN {h[r].projectId} ELSE {})
VisibleImages(r) ==
    {im \in images :
        /\ im.id \notin tx[r].wDel
        /\ ~(tx[r].delProject /\ im.project_id = h[r].projectId)}
    \cup tx[r].wIns

\* Row locks held by the open transactions of the other handlers.
ProjectWriteLocked(p, r) ==
    \E q \in Slots \ {r} :
        /\ InTx(q)
        /\ h[q].projectId = p
        /\ (DOMAIN tx[q].upd # {} \/ tx[q].delProject)
ProjectDeleteLocked(p, r) ==
    \E q \in Slots \ {r} :
        InTx(q) /\ h[q].projectId = p /\ tx[q].delProject
ProjectKeyShared(p, r) ==
    \E q \in Slots \ {r} :
        InTx(q) /\ \E im \in tx[q].wIns : im.project_id = p
ImageLocked(im, r) ==
    \E q \in Slots \ {r} :
        /\ InTx(q)
        /\ \/ im.id \in tx[q].wDel
           \/ tx[q].delProject /\ im.project_id = h[q].projectId

\* The columns an INSERT INTO gallery_projects stores for a body: an
\* undefined parameter is sent as NULL, display_order defaults to 0.
ProjectRow(body) ==
    [f \in AllFields |->
        IF f = "display_order"
        THEN (IF body[f] = NoNumber THEN 0 ELSE PgInt(body[f]))
        ELSE (IF body[f] = Undefined THEN Null ELSE body[f])]

\* display_order is an integer column: the INSERT fails on a display_order
\* that is no integer.
ProjectInsertOk(body) ==
    body.display_order = NoNumber \/ PgIntOk(body.display_order)

\* The DDL of gallery_projects is not part of the repository: a NULL title
\* is stored, or refused by a NOT NULL constraint on the column.
TitleMayBeRefused(body) == body.title = Undefined

\* A query without ORDER BY: the rows in any order.
InAnyOrder(rows) ==
    {s \in [1..Cardinality(rows) -> rows] :
        \A a, b \in 1..Cardinality(rows) : a # b => s[a] # s[b]}

\* ORDER BY image_order ASC: the rows in non-decreasing image_order; rows
\* of equal image_order come in any order.
OrderedByImageOrder(rows) ==
    {s \in [1..Cardinality(rows) -> rows] :
        /\ \A a, b \in 1..Cardinality(rows) : a # b => s[a] # s[b]
        /\ \A a, b \in 1..Cardinality(rows) :
              a < b => s[a].image_order <= s[b].image_order}

\* COALESCE(MAX(image_order), 0) over a set of rows.
MaxOrderOrZero(rows) ==
    IF rows = {} THEN 0
    ELSE CHOOSE m \in {im.image_order : im \in rows} :
            \A im \in rows : im.image_order <= m

\* COALESCE(MAX(image_order), -1) over a set of rows.
MaxOrder(rows) ==
    IF rows = {} THEN 0 - 1
    ELSE CHOOSE m \in {im.image_order : im \in rows} :
            \A im \in rows : im.image_order <= m

\* WHERE project_id = $1 on gallery_images.
ImagesOf(p, rows) == {im \in rows : im.project_id = p}

\* ON DELETE CASCADE of gallery_images.project_id: the image rows that go
\* with project p when its row is deleted.
Cascade(p, rows) == {im \in rows : im.project_id = p}

\* A COMMIT whose transaction has not deleted the project row.
ProjectsAfterCommitKeepingRow(r) ==
    LET t == tx[r]
        p == h[r].projectId
        old == [q \in DOMAIN projects |->
                  IF q = p /\ DOMAIN t.upd # {}
                  THEN [f \in AllFields |->
                          IF f \in DOMAIN t.upd THEN t.upd[f] ELSE projects[q][f]]
                  ELSE projects[q]]
    IN  t.newProject @@ old

\* The committed rows after COMMIT of handler r's transaction.
ProjectsAfterCommit(r) ==
    LET t == tx[r]
        p == h[r].projectId
        kept == IF t.delProject THEN DOMAIN projects \ {p} ELSE DOMAIN projects
        old == [q \in kept |->
                  IF q = p /\ DOMAIN t.upd # {}
                  THEN [f \in AllFields |->
                          IF f \in DOMAIN t.upd THEN t.upd[f] ELSE projects[q][f]]
                  ELSE projects[q]]
    IN  t.newProject @@ old
ImagesAfterCommit(r) ==
    LET t == tx[r]
        left == {im \in images : im.id \notin t.wDel}
        gone == IF t.delProject THEN Cascade(h[r].projectId, left) ELSE {}
    IN  (left \ gone) \cup t.wIns

----------------------------------------------------------------------------
\* Pieces shared by the handlers.

tables == <<projects, images>>
serials == <<nextProjectId, nextImageId>>
blobStore == <<blobs, nextBlob, uploads>>

\* A database call that fails: pool.connect, a statement, ROLLBACK.
DbFault == faults < MaxFaults /\ faults' = faults + 1

\* The first handler that is free takes the next request.
Free(r) == h[r].pc = "idle"

At(r, pc) == [h EXCEPT ![r].pc = pc]

\* A statement inside BEGIN..COMMIT that fails aborts the transaction; the
\* error is thrown to the handler.
Aborted(r) ==
    [tx EXCEPT ![r].st = IF tx[r].st = "none" THEN "none" ELSE "aborted"]
Thrown(r, error, pc) == [h EXCEPT ![r].pc = pc, ![r].error = error]

\* res.json(...) / res.status(s).json(...): the response, with what the
\* handler did for it.
Respond(r, status, imgs, did) ==
    sent' = [req |-> req[r], did |-> did, status |-> status, images |-> imgs]

\* The handler's record once it has issued one more statement.
Did(r, stmt) == [h[r] EXCEPT !.issued = @ \cup {stmt}]

\* A step that sends no response.
Silent == sent' = NoResponse

\* The handler returns: its request and its locals are gone.
Return(r) ==
    /\ h' = [h EXCEPT ![r] = IdleHandler]
    /\ req' = [req EXCEPT ![r] = IdleReq]

\* const client = await pool.connect(), outside the try block: a failure
\* rejects the handler's promise and no response is sent.
Connect(r, from, to) ==
    /\ h[r].pc = from
    /\ \/ /\ borrowed < PoolMax
          /\ borrowed' = borrowed + 1
          /\ h' = At(r, to)
          /\ UNCHANGED <<req, faults>>
       \/ /\ DbFault
          /\ Return(r)
          /\ UNCHANGED borrowed
    /\ Silent
    /\ UNCHANGED <<tables, serials, blobStore, pendingDel, tx, started,
                   deletedOK, about, hero, site>>

\* await client.query('BEGIN') as the first call of the try block.
Begin(r, from, to, catch) ==
    /\ h[r].pc = from
    /\ \/ /\ tx' = [tx EXCEPT ![r].st = "open"]
          /\ h' = [h EXCEPT ![r].pc = to, ![r].issued = @ \cup {"BEGIN"}]
          /\ UNCHANGED faults
       \/ /\ DbFault
          /\ h' = [h EXCEPT ![r].pc = catch, ![r].error = "db",
                            ![r].issued = @ \cup {"BEGIN"}]
          /\ UNCHANGED tx
    /\ Silent
    /\ UNCHANGED <<tables, serials, blobStore, pendingDel, req, started,
                   borrowed, deletedOK, about, hero, site>>

\* A catch block whose client is not released when ROLLBACK throws.
CatchBlockWithoutFinally(r, at) ==
    /\ h[r].pc = at
    /\ \/ /\ Respond(r, 500, <<>>, Did(r, "ROLLBACK"))
          /\ borrowed' = borrowed - 1
          /\ UNCHANGED faults
       \/ /\ DbFault
          /\ Silent
          /\ UNCHANGED borrowed
    /\ tx' = [tx EXCEPT ![r] = NoTx]
    /\ Return(r)
    /\ UNCHANGED <<tables, serials, blobStore, pendingDel, started, deletedOK,
                   about, hero, site>>

\* catch (error) { await client.query('ROLLBACK'); res.status(500).json(..) }
\* finally { client.release() }.  When ROLLBACK itself fails the connection
\* is lost, the server drops the transaction, the catch block throws and no
\* response is sent; the finally block still releases the client.
CatchBlock(r, at) ==
    /\ h[r].pc = at
    /\ \/ /\ Respond(r, 500, <<>>, Did(r, "ROLLBACK"))
          /\ UNCHANGED faults
       \/ /\ DbFault
          /\ Silent
    /\ tx' = [tx EXCEPT ![r] = NoTx]
    /\ Return(r)
    /\ borrowed' = borrowed - 1
    /\ UNCHANGED <<tables, serials, blobStore, pendingDel, started, deletedOK,
                   about, hero, site>>

\* uploadToBlob(file): put() stores the buffer under a fresh name and
\* returns its URL; an empty buffer, an unset BLOB_READ_WRITE_TOKEN or a
\* failing put() makes it throw.
uploadToBlob(r, to) ==
    /\ blobs' = blobs \cup {nextBlob}
    /\ nextBlob' = nextBlob + 1
    /\ h' = [h EXCEPT ![r].pc = to, ![r].imageUrl = nextBlob,
                      ![r].uploaded = @ \cup {nextBlob}]

\* deleteFromBlob(url): del() removes the blob; a failing del() is logged
\* and swallowed.
deleteFromBlob(url) ==
    \/ blobs' = blobs \ {url}
    \/ blobs' = blobs

\* An insert that marks every image as the primary one.
ImageRowAlwaysPrimary(id, project, url, order, primary) ==
    [id |-> id, project_id |-> project, image_url |-> url,
     image_order |-> order, is_primary |-> TRUE]

\* The image row a handler inserts.
ImageRow(id, project, url, order, primary) ==
    [id |-> id, project_id |-> project, image_url |-> url,
     image_order |-> order, is_primary |-> primary]

\* An Express request reaches a gallery route.  The router mounts no
\* authentication middleware on the gallery routes: the Authorization
\* header is carried and never read.  A create request arrives with its
\* body.
Start(r) ==
    /\ started < MaxRequests
    /\ Free(r)
    /\ \A q \in Slots : q < r => ~Free(q)
    /\ \E kind \in Kinds, auth \in AuthHeaders, id \in IdParams \cup {<<>>},
          body \in CreateBodies \cup {EmptyBody} :
          /\ (kind \in {"create", "list"}) = (id = <<>>)
          /\ (kind = "create") = (body \in CreateBodies)
          /\ kind # "create" => auth = "none"
          /\ req' = [req EXCEPT ![r] =
                        [IdleReq EXCEPT !.kind = kind, !.auth = auth,
                                        !.id = id, !.body = body]]
          /\ h' = [h EXCEPT ![r] =
                      [IdleHandler EXCEPT !.pc =
                          CASE kind = "create" -> "c_connect"
                            [] kind = "update" -> "u_connect"
                            [] kind = "delete" -> "d_connect"
                            [] kind = "get" -> "g_project"
                            [] kind = "list" -> "l_projects"]]
    /\ started' = started + 1
    /\ Silent
    /\ UNCHANGED <<tables, serials, blobStore, pendingDel, tx, faults,
                   borrowed, deletedOK, about, hero, site>>

----------------------------------------------------------------------------
\* router.post('/create')

CreateConnect(r) == Connect(r, "c_connect", "c_begin")

CreateBegin(r) == Begin(r, "c_begin", "c_insert", "c_catch")

\* INSERT INTO gallery_projects ... RETURNING *, then the test of
\* req.files that enters the upload loop.
CreateInsertProject(r) ==
    /\ h[r].pc = "c_insert"
    /\ LET body == req[r].body IN
       \/ /\ ProjectInsertOk(body)
          /\ \E n \in 0..MaxFiles :
                /\ req' = [req EXCEPT ![r].files = n]
                /\ h' = [h EXCEPT ![r].projectId = nextProjectId, ![r].i = 0,
                                  ![r].pc = IF n > 0 THEN "c_upload"
                                            ELSE "c_commit"]
          /\ tx' = [tx EXCEPT ![r].newProject =
                                  [p \in {nextProjectId} |-> ProjectRow(body)]]
          /\ nextProjectId' = nextProjectId + 1
          /\ UNCHANGED faults
       \/ /\ ~ProjectInsertOk(body) \/ TitleMayBeRefused(body)
          /\ tx' = Aborted(r)
          /\ h' = Thrown(r, "constraint", "c_catch")
          /\ UNCHANGED <<req, nextProjectId, faults>>
       \/ /\ DbFault
          /\ tx' = Aborted(r)
          /\ h' = Thrown(r, "db", "c_catch")
          /\ UNCHANGED <<req, nextProjectId>>
    /\ Silent
    /\ UNCHANGED <<tables, nextImageId, blobStore, pendingDel, started,
                   borrowed, deletedOK, about, hero, site>>

\* A create handler that skips the file whose upload fails, as the update
\* handler does.
CreateUploadSkipsFile(r) ==
    /\ h[r].pc = "c_upload"
    /\ uploads < MaxUploads
    /\ uploads' = uploads + 1
    /\ \/ uploadToBlob(r, "c_image")
       \/ /\ h' = [h EXCEPT ![r].error = "blob", ![r].i = @ + 1,
                            ![r].pc = IF h[r].i + 1 < req[r].files
                                      THEN "c_upload" ELSE "c_commit"]
          /\ UNCHANGED <<blobs, nextBlob>>
    /\ Silent
    /\ UNCHANGED <<tables, serials, pendingDel, req, tx, started, faults,
                   borrowed, deletedOK, about, hero, site>>

\* const imageUrl = await uploadToBlob(file), file = req.files[i]
CreateUpload(r) ==
    /\ h[r].pc = "c_upload"
    /\ uploads < MaxUploads
    /\ uploads' = uploads + 1
    /\ \/ uploadToBlob(r, "c_image")
       \/ /\ h' = Thrown(r, "blob", "c_catch")
          /\ UNCHANGED <<blobs, nextBlob>>
    /\ Silent
    /\ UNCHANGED <<tables, serials, pendingDel, req, tx, started, faults,
                   borrowed, deletedOK, about, hero, site>>

\* INSERT INTO gallery_images (project_id, image_url, image_order,
\* is_primary) VALUES (project.id, imageUrl, i, i === 0)
CreateInsertImage(r) ==
    /\ h[r].pc = "c_image"
    /\ \/ /\ tx' = [tx EXCEPT ![r].wIns = @ \cup
                      {ImageRow(nextImageId, h[r].projectId, h[r].imageUrl,
                                h[r].i, h[r].i = 0)}]
          /\ nextImageId' = nextImageId + 1
          /\ h' = [h EXCEPT ![r].i = @ + 1,
                            ![r].pc = IF h[r].i + 1 < req[r].files
                                      THEN "c_upload" ELSE "c_commit"]
          /\ UNCHANGED faults
       \/ /\ DbFault
          /\ tx' = Aborted(r)
          /\ h' = Thrown(r, "db", "c_catch")
          /\ UNCHANGED nextImageId
    /\ Silent
    /\ UNCHANGED <<tables, nextProjectId, blobStore, pendingDel, req, started,
                   borrowed, deletedOK, about, hero, site>>

\* await client.query('COMMIT')
CreateCommit(r) ==
    /\ h[r].pc = "c_commit"
    /\ \/ /\ projects' = ProjectsAfterCommit(r)
          /\ images' = ImagesAfterCommit(r)
          /\ tx' = [tx EXCEPT ![r] = NoTx]
          /\ h' = [h EXCEPT ![r].pc = "c_reread", ![r].committed = TRUE,
                            ![r].issued = @ \cup {"COMMIT"}]
          /\ UNCHANGED faults
       \/ /\ DbFault
          /\ tx' = Aborted(r)
          /\ h' = [h EXCEPT ![r].pc = "c_catch", ![r].error = "db",
                            ![r].issued = @ \cup {"COMMIT"}]
          /\ UNCHANGED tables
    /\ Silent
    /\ UNCHANGED <<serials, blobStore, pendingDel, req, started, borrowed,
                   deletedOK, about, hero, site>>

\* SELECT ... FROM gallery_images WHERE project_id = $1 ORDER BY
\* image_order ASC after the COMMIT, then res.json and the finally block.
CreateReread(r) ==
    /\ h[r].pc = "c_reread"
    /\ \/ /\ \E imgs \in OrderedByImageOrder(ImagesOf(h[r].projectId, images)) :
                Respond(r, 200, imgs, h[r])
          /\ Return(r)
          /\ borrowed' = borrowed - 1
          /\ UNCHANGED faults
       \/ /\ DbFault
          /\ h' = Thrown(r, "db", "c_catch")
          /\ Silent
          /\ UNCHANGED <<req, borrowed>>
    /\ UNCHANGED <<tables, serials, blobStore, pendingDel, tx, started,
                   deletedOK, about, hero, site>>

CreateCatch(r) == CatchBlock(r, "c_catch")

----------------------------------------------------------------------------
\* router.post('/update/:id')

UpdateConnect(r) == Connect(r, "u_connect", "u_begin")

UpdateBegin(r) == Begin(r, "u_begin", "u_check", "u_catch")

\* const projectId = parseInt(id); if (isNaN(projectId)) throw ...;
\* SELECT id FROM gallery_projects WHERE id = $1; no row: throw ...
UpdateCheckProject(r) ==
    /\ h[r].pc = "u_check"
    /\ LET projectId == ParseInt(req[r].id) IN
       \/ /\ projectId = NaN
          /\ h' = Thrown(r, "Invalid project ID", "u_catch")
          /\ UNCHANGED <<tx, faults>>
       \/ /\ projectId # NaN
          /\ projectId \notin VisibleProjects(r)
          /\ h' = [h EXCEPT ![r].pc = "u_catch", ![r].projectId = projectId,
                            ![r].error = "not found"]
          /\ UNCHANGED <<tx, faults>>
       \/ /\ projectId # NaN
          /\ projectId \in VisibleProjects(r)
          /\ h' = [h EXCEPT ![r].pc = "u_meta", ![r].projectId = projectId]
          /\ UNCHANGED <<tx, faults>>
       \/ /\ projectId # NaN
          /\ DbFault
          /\ tx' = Aborted(r)
          /\ h' = [h EXCEPT ![r].pc = "u_catch", ![r].projectId = projectId,
                            ![r].error = "db"]
    /\ Silent
    /\ UNCHANGED <<tables, serials, blobStore, pendingDel, req, started,
                   borrowed, deletedOK, about, hero, site>>

\* Where the handler goes once the metadata is written / the images are
\* deleted: if (imageIdsToDelete.length > 0), if (req.files.length > 0).
AfterMetadata(ids, n) ==
    IF ids # {} THEN "u_seldel" ELSE IF n > 0 THEN "u_max" ELSE "u_commit"
AfterDelete(n) == IF n > 0 THEN "u_max" ELSE "u_commit"

\* The parse of deleted_images, the build of updateFields / updateValues
\* and the statement that follows: UPDATE gallery_projects SET <the sent
\* columns>, updated_at = CURRENT_TIMESTAMP WHERE id = $n RETURNING *, or
\* SELECT * FROM gallery_projects WHERE id = $1 when no column is sent.
\* parseInt(display_order) = NaN makes the UPDATE fail.
UpdateMetadata(r) ==
    /\ h[r].pc = "u_meta"
    /\ \E in \in UpdateInputs :
        LET body == in.body
            del == in.deleted_images
            n == in.files
            ids == ParseDeleted(del)
            set == UpdateSet(body)
            p == h[r].projectId
            bad == "display_order" \in DOMAIN set /\ set["display_order"] = NaN
            read == [req EXCEPT ![r].body = body, ![r].deleted_images = del,
                                ![r].files = n]
            failed == [req EXCEPT ![r].body = body]
        IN
        \/ /\ DOMAIN set = {}
           /\ req' = read
           /\ h' = [h EXCEPT ![r].pc = AfterMetadata(ids, n),
                             ![r].imageIdsToDelete = ids]
           /\ UNCHANGED <<tx, faults>>
        \/ /\ DOMAIN set # {}
           /\ ~bad
           /\ ~ProjectWriteLocked(p, r)
           /\ req' = read
           /\ tx' = [tx EXCEPT ![r].upd =
                       IF p \in VisibleProjects(r) THEN set ELSE NoUpdate]
           /\ h' = [h EXCEPT ![r].pc = AfterMetadata(ids, n),
                             ![r].imageIdsToDelete = ids]
           /\ UNCHANGED faults
        \/ /\ DOMAIN set # {}
           /\ bad
           /\ req' = failed
           /\ tx' = Aborted(r)
           /\ h' = Thrown(r, "db", "u_catch")
           /\ UNCHANGED faults
        \/ /\ ~bad
           /\ DbFault
           /\ req' = failed
           /\ tx' = Aborted(r)
           /\ h' = Thrown(r, "db", "u_catch")
    /\ Silent
    /\ UNCHANGED <<tables, serials, blobStore, pendingDel, started, borrowed,
                   deletedOK, about, hero, site>>

\* The rows WHERE id = ANY($1::int[]) selects.
OwnedByAnyProject(r) ==
    {im \in VisibleImages(r) : im.id \in h[r].imageIdsToDelete}

\* The rows WHERE id = ANY($1::int[]) AND project_id = $2 selects.
OwnedBy(r) ==
    {im \in VisibleImages(r) :
        im.id \in h[r].imageIdsToDelete /\ im.project_id = h[r].projectId}

\* SELECT image_url FROM gallery_images WHERE id = ANY($1::int[]) AND
\* project_id = $2
UpdateSelectDeleted(r) ==
    /\ h[r].pc = "u_seldel"
    /\ \/ /\ h' = [h EXCEPT ![r].imagesToDelete =
                                {im.image_url : im \in OwnedBy(r)},
                            ![r].pc = IF OwnedBy(r) = {}
                                      THEN AfterDelete(req[r].files)
                                      ELSE "u_delete"]
          /\ UNCHANGED <<tx, faults>>
       \/ /\ DbFault
          /\ tx' = Aborted(r)
          /\ h' = Thrown(r, "db", "u_catch")
    /\ Silent
    /\ UNCHANGED <<tables, serials, blobStore, pendingDel, req, started,
                   borrowed, deletedOK, about, hero, site>>

\* DELETE FROM gallery_images WHERE id = ANY($1::int[]) AND project_id =
\* $2, then imagesToDelete.rows.forEach(img => deleteFromBlob(img.image_url))
\* without await: the deletions are issued and complete on their own.
UpdateDeleteImages(r) ==
    /\ h[r].pc = "u_delete"
    /\ \/ /\ \A im \in OwnedBy(r) : ~ImageLocked(im, r)
          /\ tx' = [tx EXCEPT ![r].wDel = @ \cup {im.id : im \in OwnedBy(r)}]
          /\ pendingDel' = pendingDel \cup h[r].imagesToDelete
          /\ h' = [h EXCEPT ![r].pc = AfterDelete(req[r].files),
                            ![r].imagesToDelete = {}]
          /\ UNCHANGED faults
       \/ /\ DbFault
          /\ tx' = Aborted(r)
          /\ h' = [h EXCEPT ![r].pc = "u_catch", ![r].error = "db",
                            ![r].imagesToDelete = {}]
          /\ UNCHANGED pendingDel
    /\ Silent
    /\ UNCHANGED <<tables, serials, blobStore, req, started, borrowed,
                   deletedOK, about, hero, site>>

\* A deleteFromBlob the update handler issued completes.
BlobDeleteDone ==
    /\ \E url \in pendingDel :
          /\ pendingDel' = pendingDel \ {url}
          /\ deleteFromBlob(url)
    /\ Silent
    /\ UNCHANGED <<tables, serials, nextBlob, uploads, req, h, tx, started,
                   faults, borrowed, deletedOK, about, hero, site>>

\* SELECT COALESCE(MAX(image_order), -1) as max_order FROM gallery_images
\* WHERE project_id = $1; let nextOrder = max_order + 1
UpdateMaxOrder(r) ==
    /\ h[r].pc = "u_max"
    /\ \/ /\ h' = [h EXCEPT ![r].pc = "u_upload", ![r].i = 0,
                    ![r].nextOrder =
                        MaxOrder(ImagesOf(h[r].projectId, VisibleImages(r))) + 1]
          /\ UNCHANGED <<tx, faults>>
       \/ /\ DbFault
          /\ tx' = Aborted(r)
          /\ h' = Thrown(r, "db", "u_catch")
    /\ Silent
    /\ UNCHANGED <<tables, serials, blobStore, pendingDel, req, started,
                   borrowed, deletedOK, about, hero, site>>

\* The next file of for (const file of req.files), or the COMMIT.
NextFile(r) == IF h[r].i + 1 < req[r].files THEN "u_upload" ELSE "u_commit"

\* An update loop without the per-file try/catch: a failing upload is
\* thrown to the handler's catch block.
UpdateUploadAbortsBatch(r) ==
    /\ h[r].pc = "u_upload"
    /\ uploads < MaxUploads
    /\ uploads' = uploads + 1
    /\ \/ uploadToBlob(r, "u_image")
       \/ /\ h' = Thrown(r, "blob", "u_catch")
          /\ UNCHANGED <<blobs, nextBlob>>
    /\ Silent
    /\ UNCHANGED <<tables, serials, pendingDel, req, tx, started, faults,
                   borrowed, deletedOK, about, hero, site>>

\* try { const imageUrl = await uploadToBlob(file) ...
\* } catch (uploadErr) { console.error(...) }
UpdateUpload(r) ==
    /\ h[r].pc = "u_upload"
    /\ uploads < MaxUploads
    /\ uploads' = uploads + 1
    /\ \/ uploadToBlob(r, "u_image")
       \/ /\ h' = [h EXCEPT ![r].pc = NextFile(r), ![r].i = @ + 1]
          /\ UNCHANGED <<blobs, nextBlob>>
    /\ Silent
    /\ UNCHANGED <<tables, serials, pendingDel, req, tx, started, faults,
                   borrowed, deletedOK, about, hero, site>>

\* An update that makes its new image the primary one when the project
\* has none.
UpdateInsertImagePromotes(r) ==
    /\ h[r].pc = "u_image"
    /\ LET p == h[r].projectId
           next == [h EXCEPT ![r].pc = NextFile(r), ![r].i = @ + 1,
                             ![r].nextOrder = @ + 1, ![r].imageUrl = 0]
       IN
       \/ /\ tx[r].st = "open"
          /\ ~ProjectDeleteLocked(p, r)
          /\ p \in VisibleProjects(r)
          /\ tx' = [tx EXCEPT ![r].wIns = @ \cup
                      {ImageRow(nextImageId, p, h[r].imageUrl,
                                h[r].nextOrder,
                                \A im \in ImagesOf(p, VisibleImages(r)) :
                                    ~im.is_primary)}]
          /\ nextImageId' = nextImageId + 1
          /\ h' = next
          /\ UNCHANGED faults
       \/ /\ tx[r].st = "open"
          /\ ~ProjectDeleteLocked(p, r)
          /\ p \notin VisibleProjects(r)
          /\ tx' = Aborted(r)
          /\ h' = next
          /\ UNCHANGED <<nextImageId, faults>>
       \/ /\ tx[r].st = "aborted"
          /\ h' = next
          /\ UNCHANGED <<tx, nextImageId, faults>>
       \/ /\ tx[r].st = "open"
          /\ DbFault
          /\ tx' = Aborted(r)
          /\ h' = next
          /\ UNCHANGED nextImageId
    /\ Silent
    /\ UNCHANGED <<tables, nextProjectId, blobStore, pendingDel, req, started,
                   borrowed, deletedOK, about, hero, site>>

\* try { ... INSERT INTO gallery_images (project_id, image_url,
\* image_order, is_primary) VALUES (projectId, imageUrl, nextOrder++, false)
\* } catch (uploadErr) { console.error(...) }.  The INSERT fails when the
\* transaction is already aborted, when the project row is gone (foreign
\* key) or on a database fault; the error is caught and the loop goes on.
UpdateInsertImage(r) ==
    /\ h[r].pc = "u_image"
    /\ LET p == h[r].projectId
           next == [h EXCEPT ![r].pc = NextFile(r), ![r].i = @ + 1,
                             ![r].nextOrder = @ + 1, ![r].imageUrl = 0]
       IN
       \/ /\ tx[r].st = "open"
          /\ ~ProjectDeleteLocked(p, r)
          /\ p \in VisibleProjects(r)
          /\ tx' = [tx EXCEPT ![r].wIns = @ \cup
                      {ImageRow(nextImageId, p, h[r].imageUrl,
                                h[r].nextOrder, FALSE)}]
          /\ nextImageId' = nextImageId + 1
          /\ h' = next
          /\ UNCHANGED faults
       \/ /\ tx[r].st = "open"
          /\ ~ProjectDeleteLocked(p, r)
          /\ p \notin VisibleProjects(r)
          /\ tx' = Aborted(r)
          /\ h' = next
          /\ UNCHANGED <<nextImageId, faults>>
       \/ /\ tx[r].st = "aborted"
          /\ h' = next
          /\ UNCHANGED <<tx, nextImageId, faults>>
       \/ /\ tx[r].st = "open"
          /\ DbFault
          /\ tx' = Aborted(r)
          /\ h' = next
          /\ UNCHANGED nextImageId
    /\ Silent
    /\ UNCHANGED <<tables, nextProjectId, blobStore, pendingDel, req, started,
                   borrowed, deletedOK, about, hero, site>>

\* await client.query('COMMIT'): on an aborted transaction COMMIT rolls
\* back and reports no error.
UpdateCommit(r) ==
    /\ h[r].pc = "u_commit"
    /\ \/ /\ tx[r].st = "open"
          /\ projects' = ProjectsAfterCommit(r)
          /\ images' = ImagesAfterCommit(r)
          /\ tx' = [tx EXCEPT ![r] = NoTx]
          /\ h' = [h EXCEPT ![r].pc = "u_reread", ![r].committed = TRUE,
                            ![r].issued = @ \cup {"COMMIT"}]
          /\ UNCHANGED faults
       \/ /\ tx[r].st = "aborted"
          /\ tx' = [tx EXCEPT ![r] = NoTx]
          /\ h' = [h EXCEPT ![r].pc = "u_reread", ![r].issued = @ \cup {"COMMIT"}]
          /\ UNCHANGED <<tables, faults>>
       \/ /\ tx[r].st = "open"
          /\ DbFault
          /\ tx' = Aborted(r)
          /\ h' = [h EXCEPT ![r].pc = "u_catch", ![r].error = "db",
                            ![r].issued = @ \cup {"COMMIT"}]
          /\ UNCHANGED tables
    /\ Silent
    /\ UNCHANGED <<serials, blobStore, pendingDel, req, started, borrowed,
                   deletedOK, about, hero, site>>

\* SELECT id, image_url, image_order, is_primary FROM gallery_images WHERE
\* project_id = $1 ORDER BY image_order ASC, res.json, finally.
UpdateReread(r) ==
    /\ h[r].pc = "u_reread"
    /\ \/ /\ \E imgs \in OrderedByImageOrder(ImagesOf(h[r].projectId, images)) :
                Respond(r, 200, imgs, h[r])
          /\ Return(r)
          /\ borrowed' = borrowed - 1
          /\ UNCHANGED faults
       \/ /\ DbFault
          /\ h' = Thrown(r, "db", "u_catch")
          /\ Silent
          /\ UNCHANGED <<req, borrowed>>
    /\ UNCHANGED <<tables, serials, blobStore, pendingDel, tx, started,
                   deletedOK, about, hero, site>>

UpdateCatch(r) == CatchBlock(r, "u_catch")

----------------------------------------------------------------------------
\* router.delete('/delete/:id')

DeleteConnect(r) == Connect(r, "d_connect", "d_begin")

DeleteBegin(r) == Begin(r, "d_begin", "d_select", "d_catch")

\* A delete that issues its blob deletions without awaiting them.
DeleteSelectImagesDefersBlobs(r) ==
    /\ h[r].pc = "d_select"
    /\ \/ /\ PgIntOk(req[r].id)
          /\ LET urls == {im.image_url :
                            im \in ImagesOf(PgInt(req[r].id), VisibleImages(r))}
             IN  /\ h' = [h EXCEPT ![r].projectId = PgInt(req[r].id),
                                   ![r].pc = "d_delete"]
                 /\ pendingDel' = pendingDel \cup urls
          /\ UNCHANGED <<tx, faults>>
       \/ /\ ~PgIntOk(req[r].id)
          /\ tx' = Aborted(r)
          /\ h' = Thrown(r, "db", "d_catch")
          /\ UNCHANGED <<faults, pendingDel>>
       \/ /\ PgIntOk(req[r].id)
          /\ DbFault
          /\ tx' = Aborted(r)
          /\ h' = Thrown(r, "db", "d_catch")
          /\ UNCHANGED pendingDel
    /\ Silent
    /\ UNCHANGED <<tables, serials, blobStore, req, started, borrowed,
                   deletedOK, about, hero, site>>

\* SELECT image_url FROM gallery_images WHERE project_id = $1 with the raw
\* :id as parameter: an id that is no integer makes the statement fail.
DeleteSelectImages(r) ==
    /\ h[r].pc = "d_select"
    /\ \/ /\ PgIntOk(req[r].id)
          /\ LET urls == {im.image_url :
                            im \in ImagesOf(PgInt(req[r].id), VisibleImages(r))}
             IN  h' = [h EXCEPT ![r].projectId = PgInt(req[r].id),
                                ![r].imagesToDelete = urls,
                                ![r].pc = IF urls = {} THEN "d_delete"
                                          ELSE "d_blob"]
          /\ UNCHANGED <<tx, faults>>
       \/ /\ ~PgIntOk(req[r].id)
          /\ tx' = Aborted(r)
          /\ h' = Thrown(r, "db", "d_catch")
          /\ UNCHANGED faults
       \/ /\ PgIntOk(req[r].id)
          /\ DbFault
          /\ tx' = Aborted(r)
          /\ h' = Thrown(r, "db", "d_catch")
    /\ Silent
    /\ UNCHANGED <<tables, serials, blobStore, pendingDel, req, started,
                   borrowed, deletedOK, about, hero, site>>

\* A delete loop whose deleteFromBlob lets the error of del() through.
DeleteBlobThrows(r) ==
    /\ h[r].pc = "d_blob"
    /\ \E url \in h[r].imagesToDelete :
          \/ /\ blobs' = blobs \ {url}
             /\ h' = [h EXCEPT ![r].imagesToDelete = @ \ {url},
                               ![r].pc = IF h[r].imagesToDelete = {url}
                                         THEN "d_delete" ELSE "d_blob"]
          \/ /\ blobs' = blobs
             /\ h' = Thrown(r, "blob", "d_catch")
    /\ Silent
    /\ UNCHANGED <<tables, serials, nextBlob, uploads, pendingDel, req, tx,
                   started, faults, borrowed, deletedOK, about, hero, site>>

\* for (const img of imagesResult.rows) await deleteFromBlob(img.image_url)
DeleteBlob(r) ==
    /\ h[r].pc = "d_blob"
    /\ \E url \in h[r].imagesToDelete :
          /\ deleteFromBlob(url)
          /\ h' = [h EXCEPT ![r].imagesToDelete = @ \ {url},
                            ![r].pc = IF h[r].imagesToDelete = {url}
                                      THEN "d_delete" ELSE "d_blob"]
    /\ Silent
    /\ UNCHANGED <<tables, serials, nextBlob, uploads, pendingDel, req, tx,
                   started, faults, borrowed, deletedOK, about, hero, site>>

\* DELETE FROM gallery_projects WHERE id = $1 RETURNING *; the image rows
\* of the project go with it; deleteResult.rows.length === 0 leads to the
\* 404 branch.
DeleteProject(r) ==
    /\ h[r].pc = "d_delete"
    /\ LET p == h[r].projectId IN
       \/ /\ p \in VisibleProjects(r)
          /\ ~ProjectWriteLocked(p, r)
          /\ ~ProjectKeyShared(p, r)
          /\ \A im \in Cascade(p, images) : ~ImageLocked(im, r)
          /\ tx' = [tx EXCEPT ![r].delProject = TRUE]
          /\ h' = At(r, "d_commit")
          /\ UNCHANGED faults
       \/ /\ p \notin VisibleProjects(r)
          /\ h' = At(r, "d_notfound")
          /\ UNCHANGED <<tx, faults>>
       \/ /\ DbFault
          /\ tx' = Aborted(r)
          /\ h' = Thrown(r, "db", "d_catch")
    /\ Silent
    /\ UNCHANGED <<tables, serials, blobStore, pendingDel, req, started,
                   borrowed, deletedOK, about, hero, site>>

\* A 404 branch that returns without ROLLBACK.
DeleteNotFoundWithoutRollback(r) ==
    /\ h[r].pc = "d_notfound"
    /\ tx' = [tx EXCEPT ![r] = NoTx]
    /\ Respond(r, 404, <<>>, h[r])
    /\ Return(r)
    /\ borrowed' = borrowed - 1
    /\ UNCHANGED <<tables, serials, blobStore, pendingDel, started, faults,
                   deletedOK, about, hero, site>>

\* await client.query('ROLLBACK'); return res.status(404).json(...), then
\* the finally block.  A failing ROLLBACK throws into the catch block.
DeleteNotFound(r) ==
    /\ h[r].pc = "d_notfound"
    /\ \/ /\ tx' = [tx EXCEPT ![r] = NoTx]
          /\ Respond(r, 404, <<>>, Did(r, "ROLLBACK"))
          /\ Return(r)
          /\ borrowed' = borrowed - 1
          /\ UNCHANGED faults
       \/ /\ DbFault
          /\ tx' = Aborted(r)
          /\ h' = [h EXCEPT ![r].pc = "d_catch", ![r].error = "db",
                            ![r].issued = @ \cup {"ROLLBACK"}]
          /\ Silent
          /\ UNCHANGED <<req, borrowed>>
    /\ UNCHANGED <<tables, serials, blobStore, pendingDel, started, deletedOK,
                   about, hero, site>>

\* await client.query('COMMIT'); res.json({ status: 'success', ... }), then
\* the finally block.
DeleteCommit(r) ==
    /\ h[r].pc = "d_commit"
    /\ \/ /\ projects' = ProjectsAfterCommit(r)
          /\ images' = ImagesAfterCommit(r)
          /\ tx' = [tx EXCEPT ![r] = NoTx]
          /\ Respond(r, 200, <<>>,
                     [Did(r, "COMMIT") EXCEPT !.committed = TRUE])
          /\ deletedOK' = deletedOK \cup {h[r].projectId}
          /\ Return(r)
          /\ borrowed' = borrowed - 1
          /\ UNCHANGED faults
       \/ /\ DbFault
          /\ tx' = Aborted(r)
          /\ h' = [h EXCEPT ![r].pc = "d_catch", ![r].error = "db",
                            ![r].issued = @ \cup {"COMMIT"}]
          /\ Silent
          /\ UNCHANGED <<tables, req, borrowed, deletedOK>>
    /\ UNCHANGED <<serials, blobStore, pendingDel, started, about, hero, site>>

DeleteCatch(r) == CatchBlock(r, "d_catch")

----------------------------------------------------------------------------
\* router.get('/:id'): two pool.query calls outside any transaction, each
\* inside the try block whose catch answers 500.

\* SELECT * FROM gallery_projects WHERE id = $1; no row: 404
GetProject(r) ==
    /\ h[r].pc = "g_project"
    /\ \/ /\ PgIntOk(req[r].id)
          /\ PgInt(req[r].id) \in DOMAIN projects
          /\ h' = [h EXCEPT ![r].pc = "g_images",
                            ![r].projectId = PgInt(req[r].id)]
          /\ Silent
          /\ UNCHANGED <<req, faults>>
       \/ /\ PgIntOk(req[r].id)
          /\ PgInt(req[r].id) \notin DOMAIN projects
          /\ Respond(r, 404, <<>>,
                     [h[r] EXCEPT !.projectId = PgInt(req[r].id)])
          /\ Return(r)
          /\ UNCHANGED faults
       \/ /\ ~PgIntOk(req[r].id)
          /\ Respond(r, 500, <<>>, [h[r] EXCEPT !.error = "db"])
          /\ Return(r)
          /\ UNCHANGED faults
       \/ /\ PgIntOk(req[r].id)
          /\ DbFault
          /\ Respond(r, 500, <<>>,
                     [h[r] EXCEPT !.projectId = PgInt(req[r].id),
                                  !.error = "db"])
          /\ Return(r)
    /\ UNCHANGED <<tables, serials, blobStore, pendingDel, tx, started,
                   borrowed, deletedOK, about, hero, site>>

\* SELECT id, image_url, image_order, is_primary FROM gallery_images WHERE
\* project_id = $1 ORDER BY image_order ASC; res.json
GetImages(r) ==
    /\ h[r].pc = "g_images"
    /\ \/ /\ \E imgs \in OrderedByImageOrder(ImagesOf(h[r].projectId, images)) :
                Respond(r, 200, imgs, h[r])
          /\ UNCHANGED faults
       \/ /\ DbFault
          /\ Respond(r, 500, <<>>, [h[r] EXCEPT !.error = "db"])
    /\ Return(r)
    /\ UNCHANGED <<tables, serials, blobStore, pendingDel, tx, started,
                   borrowed, deletedOK, about, hero, site>>

----------------------------------------------------------------------------
\* router.get('/'): one pool.query for the projects, then one pool.query
\* per project for its images, all in flight together under Promise.all;
\* the catch block answers 500.  No handler of the file sets is_active:
\* every project row is an active one.

\* SELECT * FROM gallery_projects WHERE is_active = true ORDER BY ...
ListProjects(r) ==
    /\ h[r].pc = "l_projects"
    /\ \/ /\ DOMAIN projects # {}
          /\ h' = [h EXCEPT ![r].pc = "l_images",
                            ![r].pending = DOMAIN projects]
          /\ Silent
          /\ UNCHANGED <<req, faults>>
       \/ /\ DOMAIN projects = {}
          /\ Respond(r, 200, <<>>, h[r])
          /\ Return(r)
          /\ UNCHANGED faults
       \/ /\ DbFault
          /\ Respond(r, 500, <<>>, [h[r] EXCEPT !.error = "db"])
          /\ Return(r)
    /\ UNCHANGED <<tables, serials, blobStore, pendingDel, tx, started,
                   borrowed, deletedOK, about, hero, site>>

\* SELECT id, image_url, image_order, is_primary FROM gallery_images WHERE
\* project_id = $1 ORDER BY image_order ASC for one of the projects; when
\* the last of them has answered, res.json.  A failing query rejects
\* Promise.all.
ListImages(r) ==
    /\ h[r].pc = "l_images"
    /\ \/ \E p \in h[r].pending :
            \E imgs \in OrderedByImageOrder(ImagesOf(p, images)) :
              LET listed == [q \in DOMAIN h[r].listed \cup {p} |->
                               IF q = p THEN imgs ELSE h[r].listed[q]]
              IN  /\ \/ /\ h[r].pending # {p}
                        /\ h' = [h EXCEPT ![r].pending = @ \ {p},
                                          ![r].listed = listed]
                        /\ Silent
                        /\ UNCHANGED req
                     \/ /\ h[r].pending = {p}
                        /\ Respond(r, 200, <<>>,
                                   [h[r] EXCEPT !.pending = {},
                                                !.listed = listed])
                        /\ Return(r)
                  /\ UNCHANGED faults
       \/ /\ DbFault
          /\ Respond(r, 500, <<>>, [h[r] EXCEPT !.error = "db"])
          /\ Return(r)
    /\ UNCHANGED <<tables, serials, blobStore, pendingDel, tx, started,
                   borrowed, deletedOK, about, hero, site>>

----------------------------------------------------------------------------

Next ==
    \/ \E r \in Slots :
        \/ Start(r)
        \/ CreateConnect(r)
        \/ CreateBegin(r)
        \/ CreateInsertProject(r)
        \/ CreateUpload(r)
        \/ CreateInsertImage(r)
        \/ CreateCommit(r)
        \/ CreateReread(r)
        \/ CreateCatch(r)
        \/ UpdateConnect(r)
        \/ UpdateBegin(r)
        \/ UpdateCheckProject(r)
        \/ UpdateMetadata(r)
        \/ UpdateSelectDeleted(r)
        \/ UpdateDeleteImages(r)
        \/ UpdateMaxOrder(r)
        \/ UpdateUpload(r)
        \/ UpdateInsertImage(r)
        \/ UpdateCommit(r)
        \/ UpdateReread(r)
        \/ UpdateCatch(r)
        \/ DeleteConnect(r)
        \/ DeleteBegin(r)
        \/ DeleteSelectImages(r)
        \/ DeleteBlob(r)
        \/ DeleteProject(r)
        \/ DeleteNotFound(r)
        \/ DeleteCommit(r)
        \/ DeleteCatch(r)
        \/ GetProject(r)
        \/ GetImages(r)
        \/ ListProjects(r)
        \/ ListImages(r)
    \/ BlobDeleteDone

Spec == Init /\ [][Next]_vars

----------------------------------------------------------------------------
\* The admin side: login and the current user (the auth controller), the
\* two token middlewares (authenticateToken of src/middleware/auth.js and
\* verifyToken of the about routes) and POST /api/about/update behind
\* verifyToken.  These requests leave the gallery alone.

\* process.env.JWT_SECRET
JWT_SECRET == "secret"

\* bcrypt: a hash is made from a password and compare(password, hash) says
\* whether the hash was made from that password.
Hash(password) == <<"$2a", password>>
Compare(password, hash) == Hash(password) = hash

\* The admin_users table; no route of the server writes to it.
AdminUsers == {[id |-> 1, username |-> "admin", password |-> Hash("pw")]}

\* jwt.sign({ id, username, email }, secret, { expiresIn: '24h' })
JwtSign(id, secret) == [id |-> id, key |-> secret, expired |-> FALSE]
\* jwt.verify(token, secret) returns the payload or throws.
JwtVerifies(token, secret) == token.key = secret /\ ~token.expired

\* Tokens a client may present: one signed by the server for the admin, one
\* signed by the server for an admin whose row is gone since, one signed
\* with another key and one that has expired.
Tokens ==
    {JwtSign(1, JWT_SECRET), JwtSign(2, JWT_SECRET), JwtSign(1, "other"),
     [JwtSign(1, JWT_SECRET) EXCEPT !.expired = TRUE]}

\* The Authorization header as its words: absent, "Bearer" alone, or
\* "Bearer <token>".
NoHeader == <<>>
Headers == {NoHeader, <<"Bearer">>} \cup {<<"Bearer", t>> : t \in Tokens}

\* authHeader.split(' ')[1]: the token, when the header has a second word.
HasSecondWord(header) == Len(header) >= 2
SecondWord(header) == header[2]

\* !v for the strings of a JSON body.
Falsy(v) == v = Undefined \/ v = ""

Usernames == {Undefined, "admin", "nobody"}
Passwords == {Undefined, "pw", "wrong"}
Sections == {Undefined, "hero"}
\* content: absent, a string that is JSON text, a string that is not.
Contents == {Undefined, "{}", "plain"}
\* $2::jsonb accepts JSON text only.
IsJson(content) == content = "{}"

\* The slides for which a hero update carries an image file.
HeroFiles == {{}, {1}, {1, 3}}
HeroTitles == {"t", "u"}

AdminKinds == {"login", "me", "about_update", "hero_update"}

\* A request to /api/auth/login, /api/auth/me, /api/about/update or
\* /api/hero/update arrives.
AdminStart(r) ==
    /\ started < MaxRequests
    /\ Free(r)
    /\ \A q \in Slots : q < r => ~Free(q)
    /\ \E kind \in AdminKinds, header \in Headers, username \in Usernames,
          password \in Passwords, section \in Sections,
          content \in Contents, files \in HeroFiles,
          title \in HeroTitles \cup {Undefined} :
          /\ kind # "login" => username = Undefined /\ password = Undefined
          /\ kind = "login" => Len(header) = 0
          /\ kind # "about_update" =>
                section = Undefined /\ content = Undefined
          /\ (kind = "hero_update") = (title \in HeroTitles)
          /\ kind # "hero_update" => files = {}
          /\ req' = [req EXCEPT ![r] =
                        [IdleReq EXCEPT !.kind = kind,
                                        !.authorization = header,
                                        !.username = username,
                                        !.password = password,
                                        !.section = section,
                                        !.content = content,
                                        !.heroTitle = title,
                                        !.heroFiles = files]]
          /\ h' = [h EXCEPT ![r] =
                      [IdleHandler EXCEPT !.pc =
                          CASE kind = "login" -> "a_login"
                            [] kind = "me" -> "m_auth"
                            [] kind = "about_update" -> "b_auth"
                            [] kind = "hero_update" -> "h_auth"]]
    /\ started' = started + 1
    /\ Silent
    /\ UNCHANGED <<tables, serials, blobStore, pendingDel, tx, faults,
                   borrowed, deletedOK, about, hero, site>>

\* A response with a message.
Says(r, message) == [h[r] EXCEPT !.message = message]

\* A middleware that hands a request to the handler whatever jwt.verify
\* says of its token.
authenticateTokenWithoutVerify(r, from, to) ==
    /\ h[r].pc = from
    /\ LET token == SecondWord(req[r].authorization) IN
       \/ /\ ~HasSecondWord(req[r].authorization)
          /\ Respond(r, 401, <<>>,
                     Says(r, "Access denied. No token provided."))
          /\ Return(r)
       \/ /\ HasSecondWord(req[r].authorization)
          /\ h' = [h EXCEPT ![r].pc = to, ![r].user = token.id]
          /\ Silent
          /\ UNCHANGED req
    /\ UNCHANGED <<tables, serials, blobStore, pendingDel, tx, started,
                   faults, borrowed, deletedOK, about, hero, site>>

\* authenticateToken: no token is answered 401, a token that jwt.verify
\* refuses is answered 403, otherwise req.user is the payload and next()
\* runs the handler.
authenticateToken(r, from, to) ==
    /\ h[r].pc = from
    /\ LET token == SecondWord(req[r].authorization) IN
       \/ /\ ~HasSecondWord(req[r].authorization)
          /\ Respond(r, 401, <<>>,
                     Says(r, "Access denied. No token provided."))
          /\ Return(r)
       \/ /\ HasSecondWord(req[r].authorization)
          /\ ~JwtVerifies(token, JWT_SECRET)
          /\ Respond(r, 403, <<>>, Says(r, "Invalid or expired token."))
          /\ Return(r)
       \/ /\ HasSecondWord(req[r].authorization)
          /\ JwtVerifies(token, JWT_SECRET)
          /\ h' = [h EXCEPT ![r].pc = to, ![r].user = token.id]
          /\ Silent
          /\ UNCHANGED req
    /\ UNCHANGED <<tables, serials, blobStore, pendingDel, tx, started,
                   faults, borrowed, deletedOK, about, hero, site>>

\* verifyToken: no header, no second word and a token that jwt.verify
\* refuses are each answered 401, otherwise next() runs the handler.
verifyToken(r, from, to) ==
    /\ h[r].pc = from
    /\ LET token == SecondWord(req[r].authorization) IN
       \/ /\ Len(req[r].authorization) = 0
          /\ Respond(r, 401, <<>>, Says(r, "No token provided"))
          /\ Return(r)
       \/ /\ Len(req[r].authorization) > 0
          /\ ~HasSecondWord(req[r].authorization)
          /\ Respond(r, 401, <<>>, Says(r, "Invalid token format"))
          /\ Return(r)
       \/ /\ HasSecondWord(req[r].authorization)
          /\ ~JwtVerifies(token, JWT_SECRET)
          /\ Respond(r, 401, <<>>, Says(r, "Invalid or expired token"))
          /\ Return(r)
       \/ /\ HasSecondWord(req[r].authorization)
          /\ JwtVerifies(token, JWT_SECRET)
          /\ h' = [h EXCEPT ![r].pc = to, ![r].user = token.id]
          /\ Silent
          /\ UNCHANGED req
    /\ UNCHANGED <<tables, serials, blobStore, pendingDel, tx, started,
                   faults, borrowed, deletedOK, about, hero, site>>

\* The query helper of db.js up to its first await: pool.connect().  A
\* failure is thrown to the caller, whose catch block answers 500.
QueryConnect(r, from, to) ==
    /\ h[r].pc = from
    /\ \/ /\ borrowed < PoolMax
          /\ borrowed' = borrowed + 1
          /\ h' = At(r, to)
          /\ Silent
          /\ UNCHANGED <<req, faults>>
       \/ /\ DbFault
          /\ Respond(r, 500, <<>>, Says(r, "Internal server error"))
          /\ Return(r)
          /\ UNCHANGED borrowed
    /\ UNCHANGED <<tables, serials, blobStore, pendingDel, tx, started,
                   deletedOK, about, hero, site>>

\* login up to its first await: a missing username or password is answered
\* 400, otherwise the SELECT is handed to the query helper.
LoginValidate(r) ==
    /\ h[r].pc = "a_login"
    /\ IF Falsy(req[r].username) \/ Falsy(req[r].password)
       THEN /\ Respond(r, 400, <<>>,
                       Says(r, "Username and password are required"))
            /\ Return(r)
            /\ UNCHANGED <<tables, serials, blobStore, pendingDel, tx,
                           started, faults, borrowed, deletedOK, about, hero, site>>
       ELSE QueryConnect(r, "a_login", "a_select")

\* A login that tells a client when the username is unknown.
LoginSelectTellsUnknownUser(r) ==
    /\ h[r].pc = "a_select"
    /\ borrowed' = borrowed - 1
    /\ LET rows == {u \in AdminUsers : u.username = req[r].username} IN
       \/ /\ rows = {}
          /\ Respond(r, 404, <<>>, Says(r, "User not found"))
          /\ Return(r)
          /\ UNCHANGED faults
       \/ /\ \E user \in rows :
                h' = [h EXCEPT ![r].pc = "a_compare", ![r].user = user.id]
          /\ Silent
          /\ UNCHANGED <<req, faults>>
       \/ /\ DbFault
          /\ Respond(r, 500, <<>>, Says(r, "Internal server error"))
          /\ Return(r)
    /\ UNCHANGED <<tables, serials, blobStore, pendingDel, tx, started,
                   deletedOK, about, hero, site>>

\* SELECT * FROM admin_users WHERE username = $1 and the helper's release;
\* no row is answered 401.
LoginSelect(r) ==
    /\ h[r].pc = "a_select"
    /\ borrowed' = borrowed - 1
    /\ LET rows == {u \in AdminUsers : u.username = req[r].username} IN
       \/ /\ rows = {}
          /\ Respond(r, 401, <<>>, Says(r, "Invalid username or password"))
          /\ Return(r)
          /\ UNCHANGED faults
       \/ /\ \E user \in rows :
                h' = [h EXCEPT ![r].pc = "a_compare", ![r].user = user.id]
          /\ Silent
          /\ UNCHANGED <<req, faults>>
       \/ /\ DbFault
          /\ Respond(r, 500, <<>>, Says(r, "Internal server error"))
          /\ Return(r)
    /\ UNCHANGED <<tables, serials, blobStore, pendingDel, tx, started,
                   deletedOK, about, hero, site>>

\* await bcrypt.compare(password, user.password): a mismatch is answered
\* 401, a match is answered with a fresh token.
LoginCompare(r) ==
    /\ h[r].pc = "a_compare"
    /\ LET user == CHOOSE u \in AdminUsers : u.id = h[r].user IN
       IF Compare(req[r].password, user.password)
       THEN Respond(r, 200, <<>>,
                    [Says(r, "Login successful") EXCEPT
                        !.token = JwtSign(user.id, JWT_SECRET)])
       ELSE Respond(r, 401, <<>>, Says(r, "Invalid username or password"))
    /\ Return(r)
    /\ UNCHANGED <<tables, serials, blobStore, pendingDel, tx, started,
                   faults, borrowed, deletedOK, about, hero, site>>

\* router.get('/me', authenticateToken, getCurrentUser)
MeAuthenticate(r) == authenticateToken(r, "m_auth", "m_connect")
GetCurrentUserConnect(r) == QueryConnect(r, "m_connect", "m_select")

\* SELECT ... FROM admin_users WHERE id = $1 with req.user.id
GetCurrentUser(r) ==
    /\ h[r].pc = "m_select"
    /\ borrowed' = borrowed - 1
    /\ \/ /\ \A u \in AdminUsers : u.id # h[r].user
          /\ Respond(r, 404, <<>>, Says(r, "User not found"))
          /\ UNCHANGED faults
       \/ /\ \E u \in AdminUsers : u.id = h[r].user
          /\ Respond(r, 200, <<>>, Says(r, "User data retrieved"))
          /\ UNCHANGED faults
       \/ /\ DbFault
          /\ Respond(r, 500, <<>>, Says(r, "Internal server error"))
    /\ Return(r)
    /\ UNCHANGED <<tables, serials, blobStore, pendingDel, tx, started,
                   deletedOK, about, hero, site>>

\* router.post('/update', verifyToken, ...) of the about routes.
AboutAuthenticate(r) == verifyToken(r, "b_auth", "b_connect")
AboutConnect(r) == Connect(r, "b_connect", "b_begin")
AboutBegin(r) == Begin(r, "b_begin", "b_body", "b_catch")

\* if (!section || !content) { await client.query('ROLLBACK'); return
\* res.status(400).json(...) }
AboutReject(r) ==
    /\ h[r].pc = "b_body"
    /\ Falsy(req[r].section) \/ Falsy(req[r].content)
    /\ \/ /\ tx' = [tx EXCEPT ![r] = NoTx]
          /\ Respond(r, 400, <<>>,
                     [Did(r, "ROLLBACK") EXCEPT
                        !.message = "Section dan content wajib ada"])
          /\ Return(r)
          /\ borrowed' = borrowed - 1
          /\ UNCHANGED faults
       \/ /\ DbFault
          /\ tx' = Aborted(r)
          /\ h' = [h EXCEPT ![r].pc = "b_catch", ![r].error = "db",
                            ![r].issued = @ \cup {"ROLLBACK"}]
          /\ Silent
          /\ UNCHANGED <<req, borrowed>>
    /\ UNCHANGED <<tables, serials, blobStore, pendingDel, started, deletedOK,
                   about, hero, site>>

\* INSERT INTO about_content ... ON CONFLICT (section) DO UPDATE ...: the
\* statement waits for an open transaction that has written the section,
\* and fails on content that is not JSON text.
AboutUpsert(r) ==
    /\ h[r].pc = "b_body"
    /\ ~(Falsy(req[r].section) \/ Falsy(req[r].content))
    /\ \A q \in Slots \ {r} : req[r].section \notin DOMAIN tx[q].about
    /\ \/ /\ IsJson(req[r].content)
          /\ tx' = [tx EXCEPT ![r].about =
                       [s \in {req[r].section} |-> req[r].content]]
          /\ h' = At(r, "b_commit")
          /\ UNCHANGED faults
       \/ /\ ~IsJson(req[r].content)
          /\ tx' = Aborted(r)
          /\ h' = Thrown(r, "db", "b_catch")
          /\ UNCHANGED faults
       \/ /\ DbFault
          /\ tx' = Aborted(r)
          /\ h' = Thrown(r, "db", "b_catch")
    /\ Silent
    /\ UNCHANGED <<tables, serials, blobStore, pendingDel, req, started,
                   borrowed, deletedOK, about, hero, site>>

\* await client.query('COMMIT'); res.json({ status: 'success', ... }), then
\* the finally block.
AboutCommit(r) ==
    /\ h[r].pc = "b_commit"
    /\ \/ /\ about' = [s \in DOMAIN about \cup DOMAIN tx[r].about |->
                         IF s \in DOMAIN tx[r].about THEN tx[r].about[s]
                         ELSE about[s]]
          /\ tx' = [tx EXCEPT ![r] = NoTx]
          /\ Respond(r, 200, <<>>,
                     [Did(r, "COMMIT") EXCEPT
                        !.committed = TRUE,
                        !.message = "About content updated successfully"])
          /\ Return(r)
          /\ borrowed' = borrowed - 1
          /\ UNCHANGED faults
       \/ /\ DbFault
          /\ tx' = Aborted(r)
          /\ h' = [h EXCEPT ![r].pc = "b_catch", ![r].error = "db",
                            ![r].issued = @ \cup {"COMMIT"}]
          /\ Silent
          /\ UNCHANGED <<req, borrowed, about>>
    /\ UNCHANGED <<tables, serials, blobStore, pendingDel, started, deletedOK,
                   hero, site>>

AboutCatch(r) == CatchBlock(r, "b_catch")

\* router.post('/update', authenticateToken, upload.fields([...]), ...) of
\* the hero routes: for each of the three slides an upload of the slide's
\* image when the request carries one, then an UPDATE of the slide, each
\* UPDATE a transaction of its own through the query helper; then a SELECT
\* of the slides and the answer.  A call of the query helper is one step
\* here.

\* The first await of slide k: the upload when the slide has a file.
HeroStep(request, k) ==
    IF k \in request.heroFiles THEN "h_upload" ELSE "h_slide"

HeroAuthenticate(r) == authenticateToken(r, "h_auth", HeroStep(req[r], 1))

\* The uploadToBlob of the hero handler: put() stores the buffer and the
\* URL is returned; when put() throws the error is logged and null is
\* returned.
HeroUpload(r) ==
    /\ h[r].pc = "h_upload"
    /\ uploads < MaxUploads
    /\ uploads' = uploads + 1
    /\ \/ uploadToBlob(r, "h_slide")
       \/ /\ h' = [h EXCEPT ![r].pc = "h_slide", ![r].imageUrl = 0]
          /\ UNCHANGED <<blobs, nextBlob>>
    /\ Silent
    /\ UNCHANGED <<tables, serials, pendingDel, req, tx, started, faults,
                   borrowed, deletedOK, about, hero, site>>

\* COALESCE($4, image_url)
Coalesce(url, old) == IF url = 0 THEN old ELSE url

\* UPDATE hero_slides SET subtitle = $1, title = $2, description = $3,
\* image_url = COALESCE($4, image_url) WHERE slide_order = k
HeroUpdateSlide(r) ==
    /\ h[r].pc = "h_slide"
    /\ LET k == h[r].i + 1 IN
       \/ /\ hero' = [hero EXCEPT ![k] =
                        [title |-> req[r].heroTitle,
                         image_url |-> Coalesce(h[r].imageUrl, @.image_url)]]
          /\ h' = [h EXCEPT ![r].i = k, ![r].imageUrl = 0,
                            ![r].pc = IF k + 1 \in HeroSlides
                                      THEN HeroStep(req[r], k + 1)
                                      ELSE "h_fetch"]
          /\ Silent
          /\ UNCHANGED <<req, faults>>
       \/ /\ DbFault
          /\ Respond(r, 500, <<>>,
                     [Says(r, "Failed to update hero section") EXCEPT
                        !.error = "db"])
          /\ Return(r)
          /\ UNCHANGED hero
    /\ UNCHANGED <<tables, serials, blobStore, pendingDel, tx, started,
                   borrowed, deletedOK, about, site>>

\* SELECT * FROM hero_slides WHERE is_active = true ORDER BY slide_order
\* ASC; res.json({ status: 'success', ... })
HeroFetch(r) ==
    /\ h[r].pc = "h_fetch"
    /\ \/ /\ Respond(r, 200, <<>>,
                     Says(r, "Hero section updated successfully"))
          /\ UNCHANGED faults
       \/ /\ DbFault
          /\ Respond(r, 500, <<>>,
                     [Says(r, "Failed to update hero section") EXCEPT
                        !.error = "db"])
    /\ Return(r)
    /\ UNCHANGED <<tables, serials, blobStore, pendingDel, tx, started,
                   borrowed, deletedOK, about, hero, site>>

AdminNext ==
    \E r \in Slots :
        \/ AdminStart(r)
        \/ LoginValidate(r)
        \/ LoginSelect(r)
        \/ LoginCompare(r)
        \/ MeAuthenticate(r)
        \/ GetCurrentUserConnect(r)
        \/ GetCurrentUser(r)
        \/ AboutAuthenticate(r)
        \/ AboutConnect(r)
        \/ AboutBegin(r)
        \/ AboutReject(r)
        \/ AboutUpsert(r)
        \/ AboutCommit(r)
        \/ AboutCatch(r)
        \/ HeroAuthenticate(r)
        \/ HeroUpload(r)
        \/ HeroUpdateSlide(r)
        \/ HeroFetch(r)

AdminSpec == Init /\ [][AdminNext]_vars

----------------------------------------------------------------------------
\* The content side: the write routes of the services, contact, hero and
\* about routers, each behind a token middleware, and GET /api/contact.

\* /^[a-z_]+$/.test(sectionName), for the section names requests carry here.
IsLowerSnake(name) == name \in {"hero", "vision"}

\* !sectionContent || typeof sectionContent !== 'object' ||
\* Array.isArray(sectionContent)
IsPlainObject(content) == content.type = "object"
\* JSON.stringify(sectionContent)
Stringify(content) == content.json
\* $2::jsonb: the text of an object is JSON text, and jsonb refuses the
\* escape \u0000 inside it.
Jsonb(text) == text # "{a:NUL}"

\* A section of a body: its name, and its content by type and JSON text.
Entry(name, type, json) ==
    [name |-> name, content |-> [type |-> type, json |-> json]]
\* The sections bodies of POST /api/about/update-all.
SectionsInputs ==
    {Absent,
     Json("string", <<>>),
     Json("array", <<>>),
     Json("object", <<>>),
     Json("object", <<Entry("hero", "object", "{1}"),
                      Entry("vision", "object", "{2}")>>),
     Json("object", <<Entry("hero", "object", "{3}"),
                      Entry("Bad-1", "object", "{2}")>>),
     Json("object", <<Entry("hero", "object", "{3}"),
                      Entry("vision", "string", "s")>>),
     Json("object", <<Entry("hero", "object", "{3}"),
                      Entry("vision", "object", "{a:NUL}")>>)}

\* The write requests that carry the Authorization header a: the bodies of
\* services/update are no services, an object or an array of services by
\* their titles; those of PUT services/:id are the fields they carry.
WriteRequests(a) ==
    LET Request(kind) ==
            [IdleReq EXCEPT !.kind = kind, !.authorization = a]
    IN  {[Request("about_update_all") EXCEPT !.sections = s] :
            s \in SectionsInputs}
        \cup {[Request("about_update") EXCEPT
                  !.section = "hero", !.content = c] :
                  c \in {"{}", Undefined}}
        \cup {[Request("hero_update") EXCEPT
                  !.heroTitle = "t", !.heroFiles = f] : f \in {{}, {1}}}
        \cup {[Request("services_update") EXCEPT !.services = s] :
                  s \in {Absent, Json("object", <<>>),
                         Json("array", <<"t", "u">>)}}
        \cup {[Request("services_put") EXCEPT !.id = i, !.patch = p] :
                  i \in {<<"1">>, <<"9">>},
                  p \in {NoUpdate, [title |-> "p"], [is_active |-> FALSE]}}
        \cup {[Request("services_delete") EXCEPT !.id = i] :
                  i \in {<<"1">>, <<"9">>, <<"x">>}}
        \cup {[Request("contact_update") EXCEPT !.contact = c] :
                  c \in {NoContact,
                         [address |-> "x", whatsapp |-> Undefined],
                         [address |-> "x", whatsapp |-> "62"],
                         [address |-> "y", whatsapp |-> "62"]}}

\* The requests of the content side; the Authorization header of a write
\* request is none, a token of the server or a token signed with another
\* key.
ContentRequests ==
    UNION {WriteRequests(a) :
              a \in {NoHeader, <<"Bearer", JwtSign(1, JWT_SECRET)>>,
                     <<"Bearer", JwtSign(1, "other")>>}}
    \cup {[IdleReq EXCEPT !.kind = "contact_get"]}

\* A request of the content side arrives.
ContentStart(r) ==
    /\ started < MaxRequests
    /\ Free(r)
    /\ \A q \in Slots : q < r => ~Free(q)
    /\ \E request \in ContentRequests :
          /\ req' = [req EXCEPT ![r] = request]
          /\ h' = [h EXCEPT ![r] =
                      [IdleHandler EXCEPT !.pc =
                          CASE request.kind = "about_update_all" -> "ua_auth"
                            [] request.kind = "about_update" -> "b_auth"
                            [] request.kind = "hero_update" -> "h_auth"
                            [] request.kind = "services_update" -> "sv_auth"
                            [] request.kind = "services_put" -> "sp_auth"
                            [] request.kind = "services_delete" -> "sd_auth"
                            [] request.kind = "contact_update" -> "ct_auth"
                            [] request.kind = "contact_get" -> "cg_get"]]
    /\ started' = started + 1
    /\ Silent
    /\ UNCHANGED <<tables, serials, blobStore, pendingDel, tx, faults,
                   borrowed, deletedOK, about, hero, site>>

\* A call of the query helper of db.js is one step: the statement runs in a
\* transaction of its own, and a failure is thrown to the handler, whose
\* catch block answers 500.
QueryFails(r, message) ==
    /\ DbFault
    /\ Respond(r, 500, <<>>, [Says(r, message) EXCEPT !.error = "db"])
    /\ Return(r)

\* The token middleware in front of each write handler of the services
\* and contact routes: router.post('/update', authenticateToken, ...),
\* router.put('/:id', authenticateToken, ...) and
\* router.delete('/:id', authenticateToken, ...).
ContentAuthenticate(r) ==
    \/ authenticateToken(r, "sv_auth", "sv_body")
    \/ authenticateToken(r, "sp_auth", "sp_check")
    \/ authenticateToken(r, "sd_auth", "sd_check")
    \/ authenticateToken(r, "ct_auth", "ct_body")

\* if (!services || !Array.isArray(services)) return res.status(400)...;
\* an empty array goes to the SELECT at once.
ServicesValidate(r) ==
    /\ h[r].pc = "sv_body"
    /\ IF req[r].services.type # "array"
       THEN /\ Respond(r, 400, <<>>, Says(r, "Invalid services data"))
            /\ Return(r)
       ELSE /\ h' = At(r, IF Len(req[r].services.items) = 0
                          THEN "sv_fetch" ELSE "sv_update")
            /\ Silent
            /\ UNCHANGED req
    /\ UNCHANGED <<tables, serials, blobStore, pendingDel, tx, started,
                   faults, borrowed, deletedOK, about, hero, site>>

\* UPDATE services SET icon = $1, title = $2, description = $3 WHERE
\* service_order = i + 1, for the service at index i.
ServicesUpdateItem(r) ==
    /\ h[r].pc = "sv_update"
    /\ LET serviceOrder == h[r].i + 1 IN
       \/ /\ services' =
                [id \in DOMAIN services |->
                    IF id = serviceOrder
                    THEN [services[id] EXCEPT
                            !.title = req[r].services.items[serviceOrder]]
                    ELSE services[id]]
          /\ h' = [h EXCEPT ![r].i = serviceOrder,
                            ![r].pc =
                                IF serviceOrder < Len(req[r].services.items)
                                THEN "sv_update" ELSE "sv_fetch"]
          /\ Silent
          /\ UNCHANGED <<req, faults>>
       \/ /\ QueryFails(r, "Failed to update services")
          /\ UNCHANGED services
    /\ UNCHANGED <<tables, serials, blobStore, pendingDel, tx, started,
                   borrowed, deletedOK, about, hero, contact, nextContactId,
                   lastContact>>

\* SELECT * FROM services WHERE is_active = true ORDER BY service_order
\* ASC; res.json({ status: 'success', ... })
ServicesFetch(r) ==
    /\ h[r].pc = "sv_fetch"
    /\ \/ /\ Respond(r, 200, <<>>, Says(r, "Services updated successfully"))
          /\ Return(r)
          /\ UNCHANGED faults
       \/ QueryFails(r, "Failed to update services")
    /\ UNCHANGED <<tables, serials, blobStore, pendingDel, tx, started,
                   borrowed, deletedOK, about, hero, site>>

\* The first statement of PUT and DELETE /api/services/:id: SELECT id FROM
\* services WHERE id = $1 with parseInt(req.params.id); NaN is no integer
\* for the server and the statement fails.  No row is answered 404, and a
\* PUT without fields is answered 400 after it.
ServiceCheck(r, from, to, message) ==
    /\ h[r].pc = from
    /\ LET serviceId == ParseInt(req[r].id) IN
       \/ /\ serviceId # NaN
          /\ serviceId \notin DOMAIN services
          /\ Respond(r, 404, <<>>, Says(r, "Service not found"))
          /\ Return(r)
          /\ UNCHANGED faults
       \/ /\ serviceId # NaN
          /\ serviceId \in DOMAIN services
          /\ IF to = "sp_update" /\ DOMAIN req[r].patch = {}
             THEN /\ Respond(r, 400, <<>>, Says(r, "No fields to update"))
                  /\ Return(r)
             ELSE /\ h' = [h EXCEPT ![r].pc = to,
                                    ![r].checkResult = serviceId]
                  /\ Silent
                  /\ UNCHANGED req
          /\ UNCHANGED faults
       \/ /\ serviceId = NaN
          /\ Respond(r, 500, <<>>, [Says(r, message) EXCEPT !.error = "db"])
          /\ Return(r)
          /\ UNCHANGED faults
       \/ QueryFails(r, message)
    /\ UNCHANGED <<tables, serials, blobStore, pendingDel, tx, started,
                   borrowed, deletedOK, about, hero, site>>

\* UPDATE services SET <the fields of the body> WHERE id = $n
ServicePutUpdate(r) ==
    /\ h[r].pc = "sp_update"
    /\ LET serviceId == h[r].checkResult IN
       \/ /\ services' =
                [id \in DOMAIN services |->
                    IF id = serviceId
                    THEN [f \in DOMAIN services[id] |->
                            IF f \in DOMAIN req[r].patch
                            THEN req[r].patch[f] ELSE services[id][f]]
                    ELSE services[id]]
          /\ h' = At(r, "sp_fetch")
          /\ Silent
          /\ UNCHANGED <<req, faults>>
       \/ /\ QueryFails(r, "Failed to update service")
          /\ UNCHANGED services
    /\ UNCHANGED <<tables, serials, blobStore, pendingDel, tx, started,
                   borrowed, deletedOK, about, hero, contact, nextContactId,
                   lastContact>>

\* SELECT * FROM services WHERE id = $1; res.json({ status: 'success', ... })
ServicePutFetch(r) ==
    /\ h[r].pc = "sp_fetch"
    /\ \/ /\ Respond(r, 200, <<>>, Says(r, "Service updated successfully"))
          /\ Return(r)
          /\ UNCHANGED faults
       \/ QueryFails(r, "Failed to update service")
    /\ UNCHANGED <<tables, serials, blobStore, pendingDel, tx, started,
                   borrowed, deletedOK, about, hero, site>>

\* UPDATE services SET is_active = false WHERE id = $1; res.json(...)
ServiceDeleteUpdate(r) ==
    /\ h[r].pc = "sd_update"
    /\ \/ /\ services' =
                [id \in DOMAIN services |->
                    IF id = h[r].checkResult
                    THEN [services[id] EXCEPT !.is_active = FALSE]
                    ELSE services[id]]
          /\ Respond(r, 200, <<>>, Says(r, "Service deleted successfully"))
          /\ Return(r)
          /\ UNCHANGED faults
       \/ /\ QueryFails(r, "Failed to delete service")
          /\ UNCHANGED services
    /\ UNCHANGED <<tables, serials, blobStore, pendingDel, tx, started,
                   borrowed, deletedOK, about, hero, contact, nextContactId,
                   lastContact>>

\* if (!address || !phone || !email || !hours) return res.status(400)...;
\* whatsapp.startsWith throws on a body without whatsapp and the catch
\* block answers 500.
ContactValidate(r) ==
    /\ h[r].pc = "ct_body"
    /\ IF Falsy(req[r].contact.address)
       THEN /\ Respond(r, 400, <<>>,
                       Says(r, "Address, phone, email, and hours are required"))
            /\ Return(r)
       ELSE IF req[r].contact.whatsapp = Undefined
       THEN /\ Respond(r, 500, <<>>,
                       [Says(r, "Failed to update contact information")
                           EXCEPT !.error = "type"])
            /\ Return(r)
       ELSE /\ h' = At(r, "ct_check")
            /\ Silent
            /\ UNCHANGED req
    /\ UNCHANGED <<tables, serials, blobStore, pendingDel, tx, started,
                   faults, borrowed, deletedOK, about, hero, site>>

\* SELECT id FROM contact_info LIMIT 1: without ORDER BY any row may be
\* the one returned.
ContactCheck(r) ==
    /\ h[r].pc = "ct_check"
    /\ \/ /\ contact = {}
          /\ h' = [h EXCEPT ![r].pc = "ct_insert", ![r].checkResult = 0]
          /\ Silent
          /\ UNCHANGED <<req, faults>>
       \/ /\ \E row \in contact :
                h' = [h EXCEPT ![r].pc = "ct_update",
                               ![r].checkResult = row.id]
          /\ Silent
          /\ UNCHANGED <<req, faults>>
       \/ QueryFails(r, "Failed to update contact information")
    /\ UNCHANGED <<tables, serials, blobStore, pendingDel, tx, started,
                   borrowed, deletedOK, about, hero, site>>

\* INSERT INTO contact_info (address, ...) VALUES ($1, ...)
ContactInsert(r) ==
    /\ h[r].pc = "ct_insert"
    /\ \/ /\ contact' = contact \cup
                {[id |-> nextContactId, address |-> req[r].contact.address]}
          /\ nextContactId' = nextContactId + 1
          /\ h' = At(r, "ct_fetch")
          /\ Silent
          /\ UNCHANGED <<req, faults>>
       \/ /\ QueryFails(r, "Failed to update contact information")
          /\ UNCHANGED <<contact, nextContactId>>
    /\ UNCHANGED <<tables, serials, blobStore, pendingDel, tx, started,
                   borrowed, deletedOK, about, hero, services, lastContact>>

\* UPDATE contact_info SET address = $1, ... WHERE id = $7 with the id of
\* the SELECT
ContactUpdate(r) ==
    /\ h[r].pc = "ct_update"
    /\ \/ /\ contact' =
                {IF row.id = h[r].checkResult
                 THEN [row EXCEPT !.address = req[r].contact.address]
                 ELSE row : row \in contact}
          /\ h' = At(r, "ct_fetch")
          /\ Silent
          /\ UNCHANGED <<req, faults>>
       \/ /\ QueryFails(r, "Failed to update contact information")
          /\ UNCHANGED contact
    /\ UNCHANGED <<tables, serials, blobStore, pendingDel, tx, started,
                   borrowed, deletedOK, about, hero, services, nextContactId,
                   lastContact>>

\* SELECT * FROM contact_info ORDER BY id DESC LIMIT 1
Latest(rows) == CHOOSE row \in rows : \A other \in rows : other.id <= row.id

\* The SELECT of the latest row; res.json({ status: 'success', data: ... })
ContactFetch(r) ==
    /\ h[r].pc = "ct_fetch"
    /\ \/ /\ contact # {}
          /\ Respond(r, 200, <<>>,
                     [Says(r, "Contact information updated successfully")
                         EXCEPT !.data = Latest(contact).address])
          /\ Return(r)
          /\ lastContact' = req[r].contact.address
          /\ UNCHANGED faults
       \/ /\ contact = {}
          /\ Respond(r, 500, <<>>,
                     [Says(r, "Failed to update contact information")
                         EXCEPT !.error = "type"])
          /\ Return(r)
          /\ UNCHANGED <<faults, lastContact>>
       \/ /\ QueryFails(r, "Failed to update contact information")
          /\ UNCHANGED lastContact
    /\ UNCHANGED <<tables, serials, blobStore, pendingDel, tx, started,
                   borrowed, deletedOK, about, hero, services, contact,
                   nextContactId>>

\* router.get('/', ...) of the contact routes: the latest row, or 404 on an
\* empty table.
ContactGet(r) ==
    /\ h[r].pc = "cg_get"
    /\ \/ /\ contact = {}
          /\ Respond(r, 404, <<>>, Says(r, "Contact information not found"))
          /\ Return(r)
          /\ UNCHANGED faults
       \/ /\ contact # {}
          /\ Respond(r, 200, <<>>,
                     [h[r] EXCEPT !.data = Latest(contact).address])
          /\ Return(r)
          /\ UNCHANGED faults
       \/ QueryFails(r, "Failed to fetch contact information")
    /\ UNCHANGED <<tables, serials, blobStore, pendingDel, tx, started,
                   borrowed, deletedOK, about, hero, site>>

\* What the handler refuses at the section of index i: the three checks of
\* the body, then the name and the content of the section.
UpdateAllRefusal(request, i) ==
    LET sections == request.sections IN
    IF sections.type = "undefined" THEN "Body harus berformat"
    ELSE IF sections.type # "object" THEN "sections harus berupa object"
    ELSE IF Len(sections.items) = 0
    THEN "Sections object tidak boleh kosong"
    ELSE IF ~IsLowerSnake(sections.items[i + 1].name)
    THEN "Invalid section name"
    ELSE IF ~IsPlainObject(sections.items[i + 1].content)
    THEN "Content harus berupa object"
    ELSE "none"

\* await client.query('ROLLBACK'); return res.status(400).json(...), then
\* the finally block.
UpdateAllReject(r) ==
    /\ h[r].pc = "ua_body"
    /\ UpdateAllRefusal(req[r], h[r].i) # "none"
    /\ \/ /\ tx' = [tx EXCEPT ![r] = NoTx]
          /\ Respond(r, 400, <<>>,
                     [Did(r, "ROLLBACK") EXCEPT
                        !.message = UpdateAllRefusal(req[r], h[r].i)])
          /\ Return(r)
          /\ borrowed' = borrowed - 1
          /\ UNCHANGED faults
       \/ /\ DbFault
          /\ tx' = Aborted(r)
          /\ h' = [h EXCEPT ![r].pc = "ua_catch", ![r].error = "db",
                            ![r].issued = @ \cup {"ROLLBACK"}]
          /\ Silent
          /\ UNCHANGED <<req, borrowed>>
    /\ UNCHANGED <<tables, serials, blobStore, pendingDel, started, deletedOK,
                   about, hero, site>>

\* The transaction's rows of about_content with one more section written.
Upserted(rows, section, text) ==
    [s \in DOMAIN rows \cup {section} |->
        IF s = section THEN text ELSE rows[s]]

\* An update-all whose statements each commit on their own.
UpdateAllUpsertAutocommit(r) ==
    /\ h[r].pc = "ua_body"
    /\ UpdateAllRefusal(req[r], h[r].i) = "none"
    /\ LET entry == req[r].sections.items[h[r].i + 1]
           contentJson == Stringify(entry.content)
       IN  /\ \A q \in Slots \ {r} : entry.name \notin DOMAIN tx[q].about
           /\ \/ /\ Jsonb(contentJson)
                 /\ about' = Upserted(about, entry.name, contentJson)
                 /\ tx' = [tx EXCEPT ![r].about =
                              Upserted(@, entry.name, contentJson)]
                 /\ h' = [h EXCEPT
                            ![r].i = @ + 1,
                            ![r].pc =
                                IF h[r].i + 1 < Len(req[r].sections.items)
                                THEN "ua_body" ELSE "ua_commit"]
                 /\ UNCHANGED faults
              \/ /\ ~Jsonb(contentJson)
                 /\ tx' = Aborted(r)
                 /\ h' = Thrown(r, "db", "ua_qcatch")
                 /\ UNCHANGED <<faults, about>>
              \/ /\ DbFault
                 /\ tx' = Aborted(r)
                 /\ h' = Thrown(r, "db", "ua_qcatch")
                 /\ UNCHANGED about
    /\ Silent
    /\ UNCHANGED <<tables, serials, blobStore, pendingDel, req, started,
                   borrowed, deletedOK, hero, site>>

\* INSERT INTO about_content ... ON CONFLICT (section) DO UPDATE ... for
\* the section of index i, inside the transaction: the statement waits for
\* an open transaction that has written the section, and fails on text
\* that jsonb refuses; the error goes to the inner catch block.
UpdateAllUpsert(r) ==
    /\ h[r].pc = "ua_body"
    /\ UpdateAllRefusal(req[r], h[r].i) = "none"
    /\ LET entry == req[r].sections.items[h[r].i + 1]
           contentJson == Stringify(entry.content)
       IN  /\ \A q \in Slots \ {r} : entry.name \notin DOMAIN tx[q].about
           /\ \/ /\ Jsonb(contentJson)
                 /\ tx' = [tx EXCEPT ![r].about =
                              Upserted(@, entry.name, contentJson)]
                 /\ h' = [h EXCEPT
                            ![r].i = @ + 1,
                            ![r].pc =
                                IF h[r].i + 1 < Len(req[r].sections.items)
                                THEN "ua_body" ELSE "ua_commit"]
                 /\ UNCHANGED faults
              \/ /\ ~Jsonb(contentJson)
                 /\ tx' = Aborted(r)
                 /\ h' = Thrown(r, "db", "ua_qcatch")
                 /\ UNCHANGED faults
              \/ /\ DbFault
                 /\ tx' = Aborted(r)
                 /\ h' = Thrown(r, "db", "ua_qcatch")
    /\ Silent
    /\ UNCHANGED <<tables, serials, blobStore, pendingDel, req, started,
                   borrowed, deletedOK, about, hero, site>>

\* catch (queryError) { await client.query('ROLLBACK'); return
\* res.status(500).json(...) }, then the finally block; a ROLLBACK that
\* fails is thrown to the outer catch block.
UpdateAllQueryCatch(r) ==
    /\ h[r].pc = "ua_qcatch"
    /\ \/ /\ tx' = [tx EXCEPT ![r] = NoTx]
          /\ Respond(r, 500, <<>>,
                     [Did(r, "ROLLBACK") EXCEPT
                        !.message = "Database error for section"])
          /\ Return(r)
          /\ borrowed' = borrowed - 1
          /\ UNCHANGED faults
       \/ /\ DbFault
          /\ h' = [h EXCEPT ![r].pc = "ua_catch",
                            ![r].issued = @ \cup {"ROLLBACK"}]
          /\ Silent
          /\ UNCHANGED <<req, borrowed, tx>>
    /\ UNCHANGED <<tables, serials, blobStore, pendingDel, started, deletedOK,
                   about, hero, site>>

\* await client.query('COMMIT'); res.json({ status: 'success', ... }), then
\* the finally block.
UpdateAllCommit(r) ==
    /\ h[r].pc = "ua_commit"
    /\ \/ /\ about' = [s \in DOMAIN about \cup DOMAIN tx[r].about |->
                         IF s \in DOMAIN tx[r].about THEN tx[r].about[s]
                         ELSE about[s]]
          /\ tx' = [tx EXCEPT ![r] = NoTx]
          /\ Respond(r, 200, <<>>,
                     [Did(r, "COMMIT") EXCEPT
                        !.committed = TRUE,
                        !.message = "All sections updated successfully"])
          /\ Return(r)
          /\ borrowed' = borrowed - 1
          /\ UNCHANGED faults
       \/ /\ DbFault
          /\ tx' = Aborted(r)
          /\ h' = [h EXCEPT ![r].pc = "ua_catch", ![r].error = "db",
                            ![r].issued = @ \cup {"COMMIT"}]
          /\ Silent
          /\ UNCHANGED <<req, borrowed, about>>
    /\ UNCHANGED <<tables, serials, blobStore, pendingDel, started, deletedOK,
                   hero, site>>

\* POST /api/about/update-all is behind verifyToken and opens its
\* transaction as POST /api/about/update does.
ContentNext ==
    \E r \in Slots :
        \/ ContentStart(r)
        \/ ContentAuthenticate(r)
        \/ ServicesValidate(r)
        \/ ServicesUpdateItem(r)
        \/ ServicesFetch(r)
        \/ ServiceCheck(r, "sp_check", "sp_update",
                        "Failed to update service")
        \/ ServicePutUpdate(r)
        \/ ServicePutFetch(r)
        \/ ServiceCheck(r, "sd_check", "sd_update",
                        "Failed to delete service")
        \/ ServiceDeleteUpdate(r)
        \/ ContactValidate(r)
        \/ ContactCheck(r)
        \/ ContactInsert(r)
        \/ ContactUpdate(r)
        \/ ContactFetch(r)
        \/ ContactGet(r)
        \/ verifyToken(r, "ua_auth", "ua_connect")
        \/ Connect(r, "ua_connect", "ua_begin")
        \/ Begin(r, "ua_begin", "ua_body", "ua_catch")
        \/ UpdateAllReject(r)
        \/ UpdateAllUpsert(r)
        \/ UpdateAllQueryCatch(r)
        \/ UpdateAllCommit(r)
        \/ CatchBlock(r, "ua_catch")
        \/ AboutAuthenticate(r)
        \/ AboutConnect(r)
        \/ AboutBegin(r)
        \/ AboutReject(r)
        \/ AboutUpsert(r)
        \/ AboutCommit(r)
        \/ AboutCatch(r)
        \/ HeroAuthenticate(r)
        \/ HeroUpload(r)
        \/ HeroUpdateSlide(r)
        \/ HeroFetch(r)

ContentSpec == Init /\ [][ContentNext]_vars

----------------------------------------------------------------------------
\* Properties.

Writes == {"create", "update", "delete"}

\* C1: a POST /gallery/create without a valid bearer token is answered 401
\* and writes nothing: its handler opens no transaction, inserts no row and
\* uploads no blob.
C1_CreateNeedsToken ==
    /\ \A r \in Slots :
          req[r].kind = "create" /\ req[r].auth # "good" =>
              /\ tx[r].st = "none"
              /\ "BEGIN" \notin h[r].issued
              /\ h[r].imageUrl = 0
    /\ sent.req.kind = "create" /\ sent.req.auth # "good" =>
          sent.status = 401 /\ sent.did.issued = {}

\* A create without a token was answered success and its project row is
\* committed.
C1_TokenlessCreateCommitted ==
    /\ sent.req.kind = "create"
    /\ sent.req.auth = "none"
    /\ sent.status = 200
    /\ sent.did.projectId \in DOMAIN projects

\* C2: a create request in which the upload of one of its files fails
\* leaves no project row and no image row of its own in the committed
\* state, however many of its files were uploaded and inserted before.
C2_UploadFailureRollsBack ==
    /\ \A r \in Slots :
          req[r].kind = "create" /\ h[r].error = "blob" =>
              /\ ~h[r].committed
              /\ h[r].projectId \notin DOMAIN projects
              /\ ImagesOf(h[r].projectId, images) = {}
    /\ sent.req.kind = "create" /\ sent.did.error = "blob" =>
          /\ sent.status = 500
          /\ "ROLLBACK" \in sent.did.issued
          /\ sent.did.projectId \notin DOMAIN projects
          /\ ImagesOf(sent.did.projectId, images) = {}

\* A create with two files was answered after the upload of its second
\* file failed: the first file had been uploaded and its row inserted.
C2_SecondUploadFailed ==
    /\ sent.req.kind = "create"
    /\ sent.req.files = 2
    /\ sent.did.error = "blob"
    /\ sent.did.i = 1
    /\ sent.did.projectId # 0
    /\ sent.did.projectId \notin DOMAIN projects

\* C3: a successful create with n files answers with exactly n images,
\* the image of the file at index i has image_order = i, and the image of
\* index 0 is the only primary one; with no file the response has no image.
C3_CreateResponseImages ==
    sent.req.kind = "create" /\ sent.status = 200 =>
        /\ Len(sent.images) = sent.req.files
        /\ \A k \in 1..Len(sent.images) :
              /\ sent.images[k].image_order = k - 1
              /\ sent.images[k].is_primary = (k = 1)

\* C4: once a delete of project P has answered success, P has no project
\* row and no image row, and a GET of P whose query runs answers 404; in
\* every committed state every image row references an existing project.
C4_CascadeDelete ==
    /\ [](/\ \A im \in images : im.project_id \in DOMAIN projects
          /\ \A p \in deletedOK :
                p \notin DOMAIN projects /\ ImagesOf(p, images) = {})
    /\ [][\A r \in Slots :
            /\ h[r].pc = "g_project"
            /\ h'[r].pc # "g_project"
            /\ PgIntOk(req[r].id)
            /\ PgInt(req[r].id) \in deletedOK
            /\ faults' = faults
            => sent'.status = 404]_vars

\* A GET of a project that had images answers 404 after its delete
\* answered success.
C4_GetAfterDelete ==
    /\ sent.req.kind = "get"
    /\ sent.status = 404
    /\ sent.did.projectId = 1
    /\ 1 \in deletedOK

\* C5: an update whose id matches no project row answers 404 and writes
\* nothing.
C5_UpdateMissingProject ==
    /\ \A r \in Slots :
          req[r].kind = "update" /\ h[r].error = "not found" =>
              /\ ~h[r].committed
              /\ tx[r].upd = NoUpdate /\ tx[r].wIns = {} /\ tx[r].wDel = {}
    /\ sent.req.kind = "update" /\ sent.did.error = "not found" =>
          sent.status = 404

\* C6: a create without title and an update with a non-numeric id end
\* with 400 before BEGIN is issued, with no row written and no blob
\* uploaded or deleted.
C6_ValidationBeforeBegin ==
    /\ \A r \in Slots :
          \/ req[r].kind = "create" /\ req[r].body.title = Undefined
          \/ req[r].kind = "update" /\ ParseInt(req[r].id) = NaN
          => "BEGIN" \notin h[r].issued /\ tx[r].st = "none"
    /\ \/ sent.req.kind = "create" /\ sent.req.body.title = Undefined
       \/ sent.req.kind = "update" /\ ParseInt(sent.req.id) = NaN
       => sent.status = 400 /\ sent.did.issued = {}

\* C7: a create, update or delete that opened a transaction and answers
\* with an error has issued ROLLBACK before the response and has committed
\* none of its writes.
C7_ErrorMeansRolledBack ==
    /\ sent.req.kind \in Writes
    /\ sent.status >= 400
    /\ "BEGIN" \in sent.did.issued
    => /\ "ROLLBACK" \in sent.did.issued
       /\ ~sent.did.committed
       /\ sent.req.kind = "create" =>
              sent.did.projectId \notin DOMAIN projects

\* A field that is present and non-empty in a body, and the value stored
\* for it.
PresentNonEmpty(body, f) ==
    IF f = "display_order"
    THEN body[f] # NoNumber /\ Len(body[f]) > 0
    ELSE body[f] # Undefined /\ body[f] # ""
StoredFor(body, f) ==
    IF f = "display_order" THEN ParseInt(body[f]) ELSE body[f]

\* C8: the COMMIT of an update overwrites a column of the project with the
\* request's value if and only if the field is present and non-empty in
\* the request; every other column keeps its stored value, and an update
\* without such a field changes no column.
C8_SparseOverwrite ==
    [][\A r \in Slots :
        /\ req[r].kind = "update"
        /\ h[r].pc = "u_commit"
        /\ h'[r].committed
        /\ h[r].projectId \in DOMAIN projects
        => \A f \in AllFields :
              projects'[h[r].projectId][f] =
                  IF PresentNonEmpty(req[r].body, f)
                  THEN StoredFor(req[r].body, f)
                  ELSE projects[h[r].projectId][f]]_vars

\* An update that sent title '' and subtitle 'b' has committed: the title
\* is the stored one, the subtitle the sent one.
C8_EmptyTitleKept ==
    /\ sent.req.kind = "update"
    /\ sent.status = 200
    /\ sent.did.committed
    /\ sent.req.body.title = ""
    /\ sent.did.projectId \in DOMAIN projects
    /\ projects[sent.did.projectId].title = "a"
    /\ projects[sent.did.projectId].subtitle = "b"

\* C9: an update of project P removes only image rows of P, whatever ids
\* deleted_images names, and issues blob deletions only for URLs it has
\* read from image rows of P.
C9_DeleteScopedToProject ==
    [][\A r \in Slots :
        req[r].kind = "update" /\ h'[r] # h[r] =>
            LET P == h[r].projectId
                gone == {im \in images : im.id \in tx'[r].wDel \ tx[r].wDel}
            IN  /\ \A id \in tx'[r].wDel \ tx[r].wDel :
                      \E im \in gone : im.id = id
                /\ \A im \in gone : im.project_id = P
                /\ h'[r].imagesToDelete \ h[r].imagesToDelete
                      \subseteq {im.image_url : im \in ImagesOf(P, images)}
                /\ pendingDel' \ pendingDel \subseteq h[r].imagesToDelete
                /\ images \ images' \subseteq ImagesOf(P, images)]_vars

\* An update has answered success whose deleted_images named an image row
\* of another project: the row is still there and so is its blob.
C9_ForeignImageKept ==
    /\ sent.req.kind = "update"
    /\ sent.status = 200
    /\ sent.did.committed
    /\ \E im \in images :
          /\ im.id \in sent.did.imageIdsToDelete
          /\ im.project_id # sent.did.projectId
          /\ im.image_url \in blobs
          /\ im.image_url \notin pendingDel

\* C10: an update reads m, the largest image_order among the rows of its
\* project that its own deletions leave (-1 when none is left), and gives
\* the rows it inserts image_order m+1, m+2, ... in file order and
\* is_primary = false; a file whose upload fails takes no image_order.
C10_NewImagesAppend ==
    [][\A r \in Slots :
        req[r].kind = "update" /\ h'[r] # h[r] =>
            LET P == h[r].projectId
                left == {im \in images :
                            im.project_id = P /\ im.id \notin tx[r].wDel}
                new == tx'[r].wIns \ tx[r].wIns
            IN  /\ h[r].pc = "u_max" /\ h'[r].pc = "u_upload" =>
                      IF left = {} THEN h'[r].nextOrder = 0
                      ELSE \E im \in left :
                              /\ h'[r].nextOrder = im.image_order + 1
                              /\ \A o \in left : o.image_order <= im.image_order
                /\ \A im \in new :
                      /\ im.project_id = P
                      /\ im.image_order = h[r].nextOrder
                      /\ im.is_primary = FALSE
                      /\ h'[r].nextOrder = h[r].nextOrder + 1
                /\ h[r].pc = "u_upload" =>
                      h'[r].nextOrder = h[r].nextOrder]_vars

\* An update with one file on a project without images has answered with
\* a single image of image_order 0 that is not primary.
C10_FirstImageOfProject ==
    /\ sent.req.kind = "update"
    /\ sent.status = 200
    /\ sent.req.files = 1
    /\ sent.did.imageIdsToDelete = {}
    /\ Len(sent.images) = 1
    /\ sent.images[1].image_order = 0
    /\ sent.images[1].is_primary = FALSE

\* C11: a delete whose id matches no project row answers 404 after
\* ROLLBACK and changes no project row, no image row and no blob: it finds
\* no image to delete from blob storage, its DELETE removes nothing and
\* nothing of it is committed.
C11_DeleteMissingProject ==
    /\ [](sent.req.kind = "delete" /\ sent.status = 404 =>
            /\ "ROLLBACK" \in sent.did.issued
            /\ "COMMIT" \notin sent.did.issued
            /\ ~sent.did.committed)
    /\ [][\A r \in Slots :
            req[r].kind = "delete" /\ h'[r] # h[r] =>
                /\ h[r].pc = "d_select" /\ PgIntOk(req[r].id)
                   /\ PgInt(req[r].id) \notin DOMAIN projects
                   /\ faults' = faults
                   => h'[r].pc = "d_delete" /\ h'[r].imagesToDelete = {}
                /\ h[r].pc = "d_delete"
                   /\ h[r].projectId \notin DOMAIN projects
                   /\ faults' = faults
                   => h'[r].pc = "d_notfound" /\ tx' = tx
                /\ h[r].pc # "d_blob" => blobs' = blobs
                /\ h[r].pc # "d_commit" => UNCHANGED tables]_vars

\* A delete of an id without project row has answered 404 with the store
\* as it was at the start.
C11_MissingProject404 ==
    /\ sent.req.kind = "delete"
    /\ sent.status = 404
    /\ sent.did.projectId = 2
    /\ DOMAIN projects = {1}
    /\ images = SeedImages
    /\ blobs = {1, 2}

\* A sequence of image rows in non-decreasing image_order.
NonDecreasing(s) ==
    \A a, b \in 1..Len(s) : a < b => s[a].image_order <= s[b].image_order

\* C12: the images of a project in a GET /gallery answer, in a
\* GET /gallery/:id answer and in a create or update answer are in
\* non-decreasing image_order.
C12_ImagesSortedByOrder ==
    sent.status = 200 =>
        /\ sent.req.kind \in {"create", "update", "get"} =>
              NonDecreasing(sent.images)
        /\ sent.req.kind = "list" =>
              \A p \in DOMAIN sent.did.listed :
                  NonDecreasing(sent.did.listed[p])

\* GET /gallery has answered with a project of three images, one of them
\* added by an update.
C12_ListWithThreeImages ==
    /\ sent.req.kind = "list"
    /\ sent.status = 200
    /\ 1 \in DOMAIN sent.did.listed
    /\ Len(sent.did.listed[1]) = 3

\* The responses a token middleware writes itself.
Refused == sent.status # 0 /\ sent.did.pc \in {"m_auth", "b_auth", "h_auth"}

\* C13: a protected request with no Authorization header and one with a
\* token of bad signature or past expiry get the same outcome from the
\* token middleware, status 401, and the protected handler is not invoked
\* for either.
C13_RefusedWith401 ==
    /\ [](Refused => sent.status = 401)
    /\ [][\A r \in Slots :
            /\ h[r].pc \in {"m_auth", "b_auth", "h_auth"}
            /\ h'[r].pc \notin {"m_auth", "b_auth", "h_auth", "idle"}
            => /\ HasSecondWord(req[r].authorization)
               /\ JwtVerifies(SecondWord(req[r].authorization), JWT_SECRET)]_vars

\* GET /api/auth/me with a token signed with another key has been refused.
C13_ForgedTokenRefused ==
    /\ Refused
    /\ sent.req.kind = "me"
    /\ HasSecondWord(sent.req.authorization)
    /\ SecondWord(sent.req.authorization).key # JWT_SECRET

\* What a client sees of an answer of the admin side.
Body(response) ==
    [status |-> response.status, message |-> response.did.message,
     token |-> response.did.token]

InvalidCredentials ==
    [status |-> 401, message |-> "Invalid username or password",
     token |-> <<>>]

\* The username and password of a login request are those of an admin row.
Matches(request) ==
    \E u \in AdminUsers :
        u.username = request.username /\ Compare(request.password, u.password)

C15_FailingWriteAnswered ==
    [][\A r \in Slots :
        req[r].kind \in Writes /\ h[r].pc # "idle" /\ h'[r].pc = "idle" =>
            /\ sent'.status # 0
            /\ sent'.req = req[r]
            /\ h[r].error # "none" => sent'.status >= 400]_vars

\* C16: in every committed state, those after a failed or rolled-back
\* update or delete and those a reader sees while a delete runs included,
\* the image_url of every image row is a blob that exists: a blob is only
\* deleted for a row whose deletion is committed.
C16_RowsHaveBlobs == \A im \in images : im.image_url \in blobs

\* A delete has been answered 500 and rolled back; a row it left in place
\* has lost its blob.
C16_RolledBackDeleteLostBlob ==
    /\ sent.req.kind = "delete"
    /\ sent.status = 500
    /\ "ROLLBACK" \in sent.did.issued
    /\ \E im \in images :
          im.project_id = sent.did.projectId /\ im.image_url \notin blobs

\* The handlers that hold a pool client: the gallery writes between their
\* pool.connect() and their finally block.
Holding(r) ==
    /\ req[r].kind \in Writes
    /\ h[r].pc \notin {"idle", "c_connect", "u_connect", "d_connect"}

\* C17: a pool client borrowed by a gallery create, update or delete is
\* released exactly once before the request completes, on every path
\* (success, the 404 return, a thrown error, a ROLLBACK that throws in the
\* catch block): the borrowed clients are those of the handlers in flight,
\* and none is borrowed once the requests have completed.
C17_ReleasedExactlyOnce ==
    /\ [](borrowed = Cardinality({r \in Slots : Holding(r)}))
    /\ [][\A r \in Slots :
            Holding(r) /\ h'[r].pc = "idle" => borrowed' = borrowed - 1]_vars

\* Two requests have completed, the last one a write answered 500 after
\* its ROLLBACK, and no client is borrowed.
C17_AllReleasedAfterError ==
    /\ started = MaxRequests
    /\ \A r \in Slots : h[r].pc = "idle"
    /\ sent.req.kind \in Writes
    /\ sent.status = 500
    /\ "ROLLBACK" \in sent.did.issued
    /\ borrowed = 0

\* C18: in an update with several new files a failing upload skips that
\* file alone.  The failing upload leaves the transaction and the handler's
\* error state as they were and the loop goes on to the next file; the
\* COMMIT of a transaction that nothing else has failed adds one image row
\* of the project for each file whose upload succeeded and none for the
\* others; the answer that follows is a success.
C18_FailedUploadSkipsFile ==
    [][\A r \in Slots :
        req[r].kind = "update" /\ h'[r] # h[r] =>
            /\ h[r].pc = "u_upload" /\ blobs' = blobs =>
                  /\ tx' = tx
                  /\ h'[r] = [h[r] EXCEPT !.pc = NextFile(r), !.i = @ + 1]
            /\ h[r].pc = "u_commit" /\ tx[r].st = "open" /\ faults' = faults =>
                  /\ {im.image_url : im \in images' \ images} = h[r].uploaded
                  /\ \A im \in images' \ images :
                        im.project_id = h[r].projectId
                  /\ h'[r].pc = "u_reread"
            /\ h[r].pc = "u_reread" /\ faults' = faults =>
                  sent'.status = 200]_vars

\* An update with two files, of which one upload failed, has committed and
\* answered success with the project's two images and the one new image.
C18_OneOfTwoUploaded ==
    /\ sent.req.kind = "update"
    /\ sent.req.files = 2
    /\ Cardinality(sent.did.uploaded) = 1
    /\ sent.did.committed
    /\ sent.status = 200
    /\ Len(sent.images) = 3
    /\ \E k \in 1..3 : sent.images[k].image_url \in sent.did.uploaded

\* C19: a failing blob deletion never fails the request that asked for it.
\* The step of a delete that awaits deleteFromBlob moves the handler on in
\* the same way whether the blob is gone afterwards or not, and touches no
\* transaction and no row; the completion of a deletion an update has
\* issued touches no handler, no transaction and no row; no update or
\* delete is answered with the error of a blob deletion.
C19_BlobDeletionNeverFails ==
    /\ [](sent.req.kind \in {"update", "delete"} /\ sent.status >= 400 =>
            sent.did.error # "blob")
    /\ [][/\ \A r \in Slots :
                h[r].pc = "d_blob" /\ h'[r] # h[r] =>
                    /\ \E url \in h[r].imagesToDelete :
                          h'[r] = [h[r] EXCEPT
                                     !.imagesToDelete = @ \ {url},
                                     !.pc = IF h[r].imagesToDelete = {url}
                                            THEN "d_delete" ELSE "d_blob"]
                    /\ UNCHANGED <<tx, tables>>
          /\ pendingDel' # pendingDel /\ pendingDel' \subseteq pendingDel =>
                UNCHANGED <<h, req, tx, tables>>]_vars

\* A delete of project 1 has committed and answered success although the
\* deletion of one of its blobs failed.
C19_DeletedWithBlobLeft ==
    /\ sent.req.kind = "delete"
    /\ sent.status = 200
    /\ sent.did.projectId = 1
    /\ 1 \notin DOMAIN projects
    /\ 1 \in blobs
    /\ 2 \notin blobs

\* C20: no upload helper drops a fault: an upload that fails returns an
\* error to its caller, never a null URL that is taken for "no image".  For
\* the hero handler: an upload step that stored no blob leaves the handler
\* with an error, and a hero update is only answered with success when
\* every image it carried was stored.
C20_UploadFaultReported ==
    /\ [](sent.req.kind = "hero_update" /\ sent.status = 200 =>
            Cardinality(sent.did.uploaded) = Cardinality(sent.req.heroFiles))
    /\ [][\A r \in Slots :
            /\ h[r].pc = "h_upload"
            /\ h'[r] # h[r]
            /\ blobs' = blobs
            => h'[r].error # "none"]_vars

\* A hero update that carried an image for slide 1 has been answered with
\* success; the upload had failed and the slide has its old image.
C20_HeroImageDropped ==
    /\ sent.req.kind = "hero_update"
    /\ sent.req.heroFiles = {1}
    /\ sent.status = 200
    /\ sent.did.uploaded = {}
    /\ hero[1].title = sent.req.heroTitle
    /\ hero[1].image_url = 0

\* The ids the entries of a deleted_images array name: an entry that
\* starts with a digit names the number it starts with, any other entry
\* names nothing.
NumericIds(items) ==
    {DigitsValue(LeadingDigits(items[k])) :
        k \in {j \in 1..Len(items) :
                 items[j] # <<>> /\ IsDigit(Head(items[j]))}}

\* C21: an update drops the non-numeric entries of deleted_images and
\* deletes the image rows of its project that the numeric entries name; a
\* deleted_images that is no JSON or no array names nothing, never sends
\* the handler to its catch block and never reaches the deletion
\* statements, so the COMMIT of the request carries its field updates and
\* its new images and removes no row.
C21_TolerantDeletedImages ==
    [][\A r \in Slots :
        req[r].kind = "update" /\ h'[r] # h[r] =>
            LET d == req'[r].deleted_images IN
            /\ h[r].pc = "u_meta" /\ h'[r].pc # "u_catch" =>
                  /\ h'[r].imageIdsToDelete =
                        IF d.kind = "array" THEN NumericIds(d.items) ELSE {}
                  /\ d.kind # "array" => h'[r].pc \notin {"u_seldel", "u_delete"}
            /\ h[r].pc = "u_meta" /\ h'[r].pc = "u_catch" =>
                  \/ faults' # faults
                  \/ /\ Sent(req'[r].body, "display_order")
                     /\ ParseInt(req'[r].body["display_order"]) = NaN
            /\ h[r].pc = "u_delete" /\ h'[r].pc # "u_catch" =>
                  tx'[r].wDel =
                      {im.id : im \in
                          {i \in ImagesOf(h[r].projectId, VisibleImages(r)) :
                              i.id \in NumericIds(d.items)}}
            /\ d.kind # "array" /\ h[r].pc = "u_commit" /\ h'[r].committed =>
                  /\ ImagesOf(h[r].projectId, images) \subseteq images'
                  /\ tx[r].wIns \subseteq images'
                  /\ Cardinality(tx[r].wIns) = Cardinality(h[r].uploaded)
                  /\ \A f \in DOMAIN tx[r].upd :
                        projects'[h[r].projectId][f] = tx[r].upd[f]]_vars

\* An update whose deleted_images was ["x", "2"] has committed and answered
\* success: image 2 of project 1 is gone, image 1 is kept.
C21_NumericEntryDeleted ==
    /\ sent.req.kind = "update"
    /\ sent.status = 200
    /\ sent.did.committed
    /\ sent.did.projectId = 1
    /\ sent.req.deleted_images = Deleted("array", << <<"x">>, <<"2">> >>)
    /\ {im.id : im \in ImagesOf(1, images)} = {1}

\* C22: of two overlapping updates of one project the UPDATE statements do
\* not overlap (the second waits for the row until the first has
\* committed), and when the second commits every column has the value of
\* the request that committed last among those that sent it: its own value
\* if it sent the column, else the value of the first if that one sent it,
\* else the value stored before.
C22_LastCommitWinsPerField ==
    /\ [](\A r, q \in Slots :
            /\ r # q
            /\ InTx(r) /\ InTx(q)
            /\ h[r].projectId = h[q].projectId
            => DOMAIN tx[r].upd = {} \/ DOMAIN tx[q].upd = {})
    /\ [][\A r, q \in Slots :
            /\ r # q
            /\ req[r].kind = "update" /\ req[q].kind = "update"
            /\ h[q].committed
            /\ h[q].projectId = h[r].projectId
            /\ h[r].pc = "u_commit" /\ h'[r].committed
            => \A f \in AllFields :
                  projects'[h[r].projectId][f] =
                      IF PresentNonEmpty(req[r].body, f)
                      THEN StoredFor(req[r].body, f)
                      ELSE IF PresentNonEmpty(req[q].body, f)
                      THEN StoredFor(req[q].body, f)
                      ELSE projects[h[r].projectId][f]]_vars

\* Two updates of project 1 are in flight and both have committed: one
\* sent the subtitle alone, the other the title and the display_order; the
\* row has the subtitle of the one and the title of the other.
C22_BothUpdatesKept ==
    /\ \A r \in Slots :
          req[r].kind = "update" /\ h[r].committed /\ h[r].projectId = 1
    /\ \E r, q \in Slots :
          /\ PresentNonEmpty(req[r].body, "subtitle")
          /\ ~PresentNonEmpty(req[r].body, "title")
          /\ PresentNonEmpty(req[q].body, "title")
          /\ ~PresentNonEmpty(req[q].body, "subtitle")
    /\ projects[1].subtitle = "b"
    /\ projects[1].title = "b"
    /\ projects[1].display_order = 2

\* The image rows of project p that are primary.
Primary(p, rows) == {im \in ImagesOf(p, rows) : im.is_primary}

\* C23: no step changes is_primary of an image row that exists, and the
\* rows an update adds are not primary; so a project that exists and has
\* no primary image, as after an update has deleted it, has none after any
\* further step.
C23_PrimaryNeverReassigned ==
    [][/\ \A old \in images, new \in images' :
              old.id = new.id => new.is_primary = old.is_primary
       /\ \A r \in Slots :
              req[r].kind = "update" =>
                  /\ \A im \in tx'[r].wIns : ~im.is_primary
                  /\ h[r].pc = "u_commit" /\ h'[r].pc = "u_reread" =>
                        \A im \in images' \ images : ~im.is_primary
       /\ \A p \in DOMAIN projects :
              Primary(p, images) = {} => Primary(p, images') = {}]_vars

\* An update has deleted image 1, the primary image of project 1, and a
\* later update has added an image: the project has images, none primary.
C23_NoPrimaryAfterLaterUpdate ==
    /\ sent.req.kind = "update"
    /\ sent.status = 200
    /\ sent.did.committed
    /\ sent.did.projectId = 1
    /\ sent.did.uploaded # {}
    /\ sent.did.imageIdsToDelete = {}
    /\ \A im \in images : im.id # 1
    /\ \E im \in ImagesOf(1, images) : im.image_url \in sent.did.uploaded
    /\ Primary(1, images) = {}

\* C24: a delete deletes the blobs of the project's images one after
\* another, awaiting each, before it deletes the project row, and deletes
\* the project row before COMMIT; none of its blob deletions is pending
\* when it answers.
C24_BlobsThenRowThenCommit ==
    /\ [](\A r \in Slots :
            req[r].kind = "delete" =>
                /\ h[r].pc \in {"d_delete", "d_notfound", "d_commit"} =>
                      h[r].imagesToDelete = {}
                /\ h[r].pc = "d_commit" => tx[r].delProject
                /\ tx[r].delProject => h[r].pc \in {"d_commit", "d_catch"})
    /\ [](sent.req.kind = "delete" /\ sent.status # 0 =>
            sent.did.imagesToDelete = {})
    /\ [][\A r \in Slots :
            req[r].kind = "delete" /\ h'[r] # h[r] =>
                /\ pendingDel' = pendingDel
                /\ h[r].pc = "d_blob" =>
                      /\ \E url \in h[r].imagesToDelete :
                            /\ h'[r].imagesToDelete =
                                  h[r].imagesToDelete \ {url}
                            /\ blobs' \in {blobs, blobs \ {url}}
                      /\ tx' = tx
                /\ h[r].pc # "d_blob" => blobs' = blobs
                /\ h[r].pc # "d_commit" => UNCHANGED tables]_vars

\* A delete of project 1 has answered success: the row is gone, both blobs
\* are gone and no blob deletion is pending.
C24_DeleteAnsweredBlobsGone ==
    /\ sent.req.kind = "delete"
    /\ sent.status = 200
    /\ sent.did.projectId = 1
    /\ 1 \notin DOMAIN projects
    /\ blobs \cap {1, 2} = {}
    /\ pendingDel = {}
    /\ sent.did.issued = {"BEGIN", "COMMIT"}

\* C25: in every state, whatever the interleaving of create, update and
\* delete, a project has at most one primary image, among the committed
\* rows and among the rows any open transaction sees.
C25_AtMostOnePrimary ==
    /\ \A im \in images : Cardinality(Primary(im.project_id, images)) <= 1
    /\ \A r \in Slots :
          \A im \in VisibleImages(r) :
              Cardinality(Primary(im.project_id, VisibleImages(r))) <= 1

\* A create with two files has committed project 2 while project 1 has its
\* two images: each project has two images and one primary image.
C25_TwoProjectsOnePrimaryEach ==
    /\ Cardinality(ImagesOf(2, images)) = 2
    /\ Cardinality(Primary(2, images)) = 1
    /\ Cardinality(ImagesOf(1, images)) = 2
    /\ Cardinality(Primary(1, images)) = 1

\* C26: in every committed state the image rows of one project have
\* pairwise distinct image_order values, also when two updates that attach
\* files to the same project overlap.
C26_DistinctImageOrder ==
    \A a, b \in images :
        a.project_id = b.project_id /\ a.id # b.id =>
            a.image_order # b.image_order

\* Two updates of project 1 that each attached one file have both
\* committed: their two new rows have the same image_order.
C26_TwoUpdatesSameOrder ==
    /\ \A r \in Slots :
          /\ req[r].kind = "update"
          /\ h[r].committed
          /\ h[r].projectId = 1
          /\ Cardinality(h[r].uploaded) = 1
    /\ \E a, b \in ImagesOf(1, images) :
          /\ a.id # b.id
          /\ a.image_order = b.image_order
          /\ a.image_url \in h[1].uploaded
          /\ b.image_url \in h[2].uploaded

\* C27: an update that answers success has committed every row write it
\* issued: its transaction was open at COMMIT.
C27_SuccessMeansCommitted ==
    sent.req.kind = "update" /\ sent.status = 200 => sent.did.committed

\* An update that sent a title and a file has answered success, its upload
\* succeeded and its transaction was rolled back at COMMIT: the project
\* keeps the old title and has no new image.
C27_SuccessWithoutCommit ==
    /\ sent.req.kind = "update"
    /\ sent.status = 200
    /\ ~sent.did.committed
    /\ sent.did.uploaded # {}
    /\ PresentNonEmpty(sent.req.body, "title")
    /\ sent.did.projectId \in DOMAIN projects
    /\ projects[sent.did.projectId].title # sent.req.body.title
    /\ \A im \in images : im.image_url \notin sent.did.uploaded

\* The write routes of the hero, services, contact and about routers, and
\* the step of each at which its token middleware runs.
ContentWrites ==
    {"hero_update", "services_update", "services_put", "services_delete",
     "contact_update", "about_update_all", "about_update"}
MiddlewareSteps ==
    {"h_auth", "sv_auth", "sp_auth", "sd_auth", "ct_auth", "ua_auth",
     "b_auth"}
\* jwt.verify accepts the token of the request.
Verified(request) ==
    IF HasSecondWord(request.authorization)
    THEN JwtVerifies(SecondWord(request.authorization), JWT_SECRET)
    ELSE FALSE
\* Handler r takes a step behind its route's middleware.
HandlerStep(r) ==
    /\ h'[r] # h[r]
    /\ h[r].pc \notin MiddlewareSteps \cup {"idle"}
\* What the write routes act on: the rows, the open transactions, the pool
\* and the blob store.
ContentStore ==
    <<hero, services, contact, nextContactId, about, tx, borrowed, faults,
      blobs, nextBlob, uploads>>

\* C28: no write handler of the hero, services, contact and about routes
\* runs a database statement or a blob upload unless token verification
\* succeeded for its request: a handler of a write route steps behind its
\* middleware only for a verified request, and whatever changes the rows,
\* the transactions, the pool or the blob store is such a step (or a step
\* of a route that is no write route).
C28_WritesOnlyWhenVerified ==
    [][/\ \A r \in Slots :
             HandlerStep(r) /\ req[r].kind \in ContentWrites
                 => Verified(req[r])
       /\ ContentStore' # ContentStore =>
             \E r \in Slots :
                 /\ HandlerStep(r)
                 /\ req[r].kind \in ContentWrites => Verified(req[r])]_vars
\* A contact update with a complete body and a forged token is answered
\* 403 with the table, the pool and the fault count as they were.
C28_ForgedWriteRefusedUntouched ==
    /\ sent.req.kind = "contact_update"
    /\ sent.req.contact.address = "x"
    /\ sent.req.contact.whatsapp = "62"
    /\ HasSecondWord(sent.req.authorization)
    /\ ~Verified(sent.req)
    /\ sent.status = 403
    /\ contact = {}
    /\ borrowed = 0
    /\ faults = 0

\* The sections of an update-all request, as the statements would store
\* them.
SectionsOf(request) ==
    {request.sections.items[i] : i \in DOMAIN request.sections.items}
Stored(rows, entry) ==
    /\ entry.name \in DOMAIN rows
    /\ rows[entry.name] = Stringify(entry.content)

\* C29: POST /about/update-all is all-or-nothing.  The committed
\* about_content changes only in the step that answers success, and then
\* only in sections of that request; an update-all that answers success
\* had no failing section and leaves every one of its sections stored; an
\* update-all that answers anything else leaves the committed rows as they
\* were.
C29_UpdateAllAllOrNothing ==
    [][/\ about' # about =>
            /\ sent'.status = 200
            /\ sent'.req.kind \in {"about_update_all", "about_update"}
            /\ sent'.req.kind = "about_update_all" =>
                  \A s \in DOMAIN about' :
                      (s \notin DOMAIN about \/ about'[s] # about[s]) =>
                          \E entry \in SectionsOf(sent'.req) : entry.name = s
       /\ sent'.req.kind = "about_update_all" /\ sent'.status = 200 =>
            \A entry \in SectionsOf(sent'.req) :
                /\ IsLowerSnake(entry.name)
                /\ IsPlainObject(entry.content)
                /\ Jsonb(Stringify(entry.content))
                /\ Stored(about', entry)
       /\ sent'.req.kind = "about_update_all" /\ sent'.status # 200 =>
            about' = about]_vars
\* An update-all whose second section the server refuses is answered 500
\* by the inner catch block, and its first section, written before, is not
\* in the committed rows.
C29_FailedSecondSectionKeepsFirstOut ==
    /\ sent.req.kind = "about_update_all"
    /\ sent.status = 500
    /\ sent.did.message = "Database error for section"
    /\ sent.did.i = 1
    /\ \A entry \in SectionsOf(sent.req) : ~Stored(about, entry)

\* A contact update that has passed its SELECT and has not answered yet.
ContactUpdateInFlight ==
    \E r \in Slots : h[r].pc \in {"ct_insert", "ct_update", "ct_fetch"}

\* C30: starting from an empty contact_info table, after any interleaving
\* of POST /contact/update requests the table holds at most one row, and
\* GET /contact returns the values of the update that completed last.
C30_ContactSingleRowLatest ==
    /\ Cardinality(contact) <= 1
    /\ /\ sent.req.kind = "contact_get"
       /\ sent.status = 200
       /\ lastContact # Undefined
       /\ ~ContactUpdateInFlight
       => sent.did.data = lastContact
\* Two overlapping contact updates have both answered success, the table
\* holds two rows, and the row GET /contact reads is not the one of the
\* update that completed last.
C30_TwoRowsAfterOverlap ==
    /\ Cardinality(contact) = 2
    /\ sent.req.kind = "contact_update"
    /\ sent.status = 200
    /\ \A r \in Slots : h[r].pc = "idle"
    /\ Latest(contact).address # lastContact

====
